---- MODULE Spec2Model ----
(***************************************************************************)
(* Model of pvtclawn/swarm-verifier.                                       *)
(*                                                                         *)
(*  - SwarmChallenge, the on-chain commit-reveal contract                  *)
(*    (specification Spec),                                                *)
(*  - the HTTP dispatcher, dispatchChallenge / challengeAgent              *)
(*    (specification SpecDispatch),                                        *)
(*  - the analyzer, analyzeSwarm and its score functions                   *)
(*    (specifications SpecScore, SpecScenario and SpecBands),              *)
(*  - the API server's POST /verify handler and its store                  *)
(*    (specification SpecServer),                                          *)
(*  - the two programs that upload evidence and attest, the API server and *)
(*    the attest-test script (specification SpecAttest).                   *)
(*                                                                         *)
(* The parts are specified apart; each specification drives its own        *)
(* variables and leaves the others at their initial value.                 *)
(***************************************************************************)
EXTENDS Integers, Sequences, FiniteSets, Bags, TLC

VARIABLES
    \* ---- SwarmChallenge contract storage and chain context
    blockNumber,    \* block.number
    challenges,     \* mapping(bytes32 => Challenge)
    commitments,    \* mapping(bytes32 => mapping(address => Commitment))
    participants,   \* mapping(bytes32 => address[])
    events,         \* the Committed, Revealed and Finalized entries of the
                    \* event log, each with the height of its block; a bag,
                    \* for the log is read without the positions in a block
    lastCall,       \* the transaction just executed and its outcome
    \* ---- dispatcher
    agents,         \* the agent list handed to dispatchChallenge
    task,           \* per agent index: the position of its challengeAgent call
    dispatch,       \* the position of dispatchChallenge and its result
    now,            \* Date.now(), in ticks
    \* ---- analyzer
    verification,   \* the SwarmVerification produced by analyzeSwarm
    \* ---- API server
    requests,       \* per POST /verify request: the position of its handler
    verifications   \* the in-memory store, a map from id to SwarmVerification

chainVars == <<blockNumber, challenges, commitments, participants, events,
               lastCall>>
dispVars  == <<agents, task, dispatch, now>>
scoreVars == <<verification>>
serverVars == <<requests, verifications>>
vars      == <<blockNumber, challenges, commitments, participants, events,
               lastCall, agents, task, dispatch, now, verification,
               requests, verifications>>

(***************************************************************************)
(* Bounds                                                                  *)
(***************************************************************************)
MaxBlock        == 4    \* highest block height explored
MaxParticipants == 2    \* accepted commits in one run

\* the addresses that send transactions
Addr == {1, 2}
NumAddr == Cardinality(Addr)

\* the answers and salts agents choose from
Answers == {1, 2}
Salts == {1, 2}
NumSalts == Cardinality(Salts)

\* the addresses that create challenges
Verifiers == {1}

\* type(uint64).max, scaled down: the largest value a block height or a
\* deadline field holds
MaxUint64 == 1000000

\* the commitBlocks / revealBlocks arguments passed to createChallenge; with
\* the last one the commit deadline fits a uint64 at height 1 only and the
\* reveal deadline never
PhaseLengths == {0, 1, 2, MaxUint64 - 1}

PromptHashes == {1}

(***************************************************************************)
(* SwarmChallenge                                                          *)
(***************************************************************************)

\* keccak256(abi.encodePacked(answer, salt)): collision free on the modelled
\* domain and never bytes32(0).
Keccak(answer, salt) == (answer - 1) * NumSalts + salt

\* bytes32(0), the value of an unwritten storage slot
ZeroHash == 0

\* the commit hashes agents submit: bytes32(0) and the hashes of two
\* (answer, salt) pairs that differ in both
CommitHashes == {ZeroHash, Keccak(1, 1), Keccak(2, 2)}

\* keccak256(abi.encodePacked(promptHash, block.number, msg.sender,
\* block.timestamp)); the timestamp is a function of the block.
\* mutant: the id does not depend on the block height
ChallengeId_NoBlock(promptHash, blk, sender) ==
    (promptHash - 1) * NumAddr + sender

ChallengeId(promptHash, blk, sender) ==
    ((promptHash - 1) * MaxBlock + (blk - 1)) * NumAddr + sender

\* an id no createChallenge call produces
UnknownId == 0

Ids == {UnknownId} \cup
       {ChallengeId(p, b, s) : p \in PromptHashes, b \in 1..MaxBlock, s \in Addr}

\* storage defaults (every mapping slot reads as zero until written)
NoChallenge ==
    [promptHash |-> 0, startBlock |-> 0, commitDeadline |-> 0,
     revealDeadline |-> 0, verifier |-> 0, finalized |-> FALSE, score |-> 0]

NoCommitment ==
    [commitHash |-> ZeroHash, commitBlock |-> 0, revealedAnswer |-> 0,
     revealed |-> FALSE]

\* a log entry: the event, its challenge, the sender of the transaction,
\* the height of the block and the event's own argument
Event(name, id, agent, arg) ==
    [name |-> name, id |-> id, agent |-> agent, block |-> blockNumber,
     arg |-> arg]

\* emit
Emit(e) == events' = events (+) SetToBag({e})

NoCall == [op |-> "none", sender |-> 0, id |-> 0, ok |-> FALSE]

Call(op, sender, id, ok) == [op |-> op, sender |-> sender, id |-> id, ok |-> ok]

InitChain ==
    /\ blockNumber = 1
    /\ challenges = [id \in Ids |-> NoChallenge]
    /\ commitments = [id \in Ids |-> [a \in Addr |-> NoCommitment]]
    /\ participants = [id \in Ids |-> <<>>]
    /\ events = EmptyBag
    /\ lastCall = NoCall

\* challenges created and not finalized.  Verifiers open one challenge at a
\* time here (or create the open one again); what the contract stores for
\* different challenges is disjoint, every mapping being keyed by the id.
NumOpen == Cardinality({id \in Ids : /\ challenges[id].startBlock > 0
                                     /\ ~challenges[id].finalized})

\* a transaction that reverts: storage is rolled back
Revert(op, sender, id) ==
    /\ lastCall' = Call(op, sender, id, FALSE)
    /\ UNCHANGED <<blockNumber, challenges, commitments, participants, events>>

\* mutant: the sums of the deadlines wrap around instead of reverting
createChallenge_Wrapping(sender, promptHash, commitBlocks, revealBlocks) ==
    LET id == ChallengeId(promptHash, blockNumber, sender) IN
    IF commitBlocks > 0 /\ revealBlocks > 0
    THEN /\ challenges' = [challenges EXCEPT ![id] =
                [promptHash |-> promptHash,
                 startBlock |-> blockNumber,
                 commitDeadline |-> (blockNumber + commitBlocks) % (MaxUint64 + 1),
                 revealDeadline |-> (blockNumber + commitBlocks + revealBlocks)
                                        % (MaxUint64 + 1),
                 verifier |-> sender,
                 finalized |-> FALSE,
                 score |-> 0]]
         /\ lastCall' = Call("createChallenge", sender, id, TRUE)
         /\ UNCHANGED <<blockNumber, commitments, participants, events>>
    ELSE Revert("createChallenge", sender, id)

\* the two require statements, then the sums of the deadlines, which are
\* checked uint64 additions (pragma solidity ^0.8.20) and revert when the
\* result does not fit
createChallenge(sender, promptHash, commitBlocks, revealBlocks) ==
    LET id == ChallengeId(promptHash, blockNumber, sender) IN
    IF /\ commitBlocks > 0 /\ revealBlocks > 0
       /\ blockNumber + commitBlocks <= MaxUint64
       /\ blockNumber + commitBlocks + revealBlocks <= MaxUint64
    THEN /\ challenges' = [challenges EXCEPT ![id] =
                [promptHash |-> promptHash,
                 startBlock |-> blockNumber,
                 commitDeadline |-> blockNumber + commitBlocks,
                 revealDeadline |-> blockNumber + commitBlocks + revealBlocks,
                 verifier |-> sender,
                 finalized |-> FALSE,
                 score |-> 0]]
         /\ lastCall' = Call("createChallenge", sender, id, TRUE)
         /\ UNCHANGED <<blockNumber, commitments, participants, events>>
    ELSE Revert("createChallenge", sender, id)

\* every created challenge has its start before its commit deadline and its
\* commit deadline before its reveal deadline
DeadlinesOrdered ==
    \A id \in Ids :
        challenges[id].startBlock > 0 =>
            /\ challenges[id].startBlock < challenges[id].commitDeadline
            /\ challenges[id].commitDeadline < challenges[id].revealDeadline
            /\ challenges[id].revealDeadline <= MaxUint64

\* what a createChallenge call with these phase lengths does: rejected, it
\* leaves the storage as it was; accepted, it records the three heights
CreateOutcome(sender, promptHash, commitBlocks, revealBlocks) ==
    LET id == ChallengeId(promptHash, blockNumber, sender) IN
    IF \/ commitBlocks = 0
       \/ revealBlocks = 0
       \/ blockNumber + commitBlocks + revealBlocks > MaxUint64
    THEN /\ ~lastCall'.ok
         /\ UNCHANGED <<challenges, commitments, participants, events>>
    ELSE /\ lastCall'.ok
         /\ challenges'[id].startBlock = blockNumber
         /\ challenges'[id].commitDeadline = blockNumber + commitBlocks
         /\ challenges'[id].revealDeadline
               = challenges'[id].commitDeadline + revealBlocks

\* C35: every created challenge has startBlock < commitDeadline <
\* revealDeadline, with commitDeadline = creation height + commitBlocks and
\* revealDeadline = commitDeadline + revealBlocks; a createChallenge call
\* with commitBlocks = 0, revealBlocks = 0 or deadlines that do not fit a
\* uint64 is rejected and creates nothing.
C35_DeadlinesOrdered ==
    /\ []DeadlinesOrdered
    /\ [][lastCall'.op = "createChallenge" =>
             \A sender \in Verifiers, p \in PromptHashes,
                cb \in PhaseLengths, rb \in PhaseLengths :
                  createChallenge(sender, p, cb, rb)
                      => CreateOutcome(sender, p, cb, rb)]_vars

\* C35 witness: a challenge created at height 1 with phases of 2 and 1
\* blocks stands with deadlines 3 and 4, and the createChallenge call just
\* made was rejected
C35_Witness ==
    /\ lastCall.op = "createChallenge"
    /\ ~lastCall.ok
    /\ challenges[lastCall.id].startBlock = 1
    /\ challenges[lastCall.id].commitDeadline = 3
    /\ challenges[lastCall.id].revealDeadline = 4

\* mutant: commits are still taken in the block after the commit deadline
commitChecks_OneBlockLate(sender, challengeId) ==
    /\ challenges[challengeId].startBlock > 0
    /\ blockNumber <= challenges[challengeId].commitDeadline + 1
    /\ commitments[challengeId][sender].commitHash = ZeroHash

\* mutant: no commit deadline
commitChecks_NoDeadline(sender, challengeId) ==
    /\ challenges[challengeId].startBlock > 0
    /\ commitments[challengeId][sender].commitHash = ZeroHash

commitChecks(sender, challengeId) ==
    /\ challenges[challengeId].startBlock > 0
    /\ blockNumber <= challenges[challengeId].commitDeadline
    /\ commitments[challengeId][sender].commitHash = ZeroHash

commit(sender, challengeId, commitHash) ==
    IF commitChecks(sender, challengeId)
    THEN /\ commitments' = [commitments EXCEPT ![challengeId][sender] =
                [commitHash |-> commitHash,
                 commitBlock |-> blockNumber,
                 revealedAnswer |-> 0,
                 revealed |-> FALSE]]
         /\ participants' = [participants EXCEPT ![challengeId] =
                Append(@, sender)]
         /\ Emit(Event("Committed", challengeId, sender, blockNumber))
         /\ lastCall' = Call("commit", sender, challengeId, TRUE)
         /\ UNCHANGED <<blockNumber, challenges>>
    ELSE Revert("commit", sender, challengeId)

\* mutant: the revealed answer is not compared with the commit hash
revealChecks_NoHashCheck(sender, challengeId, answer, salt) ==
    /\ challenges[challengeId].startBlock > 0
    /\ blockNumber > challenges[challengeId].commitDeadline
    /\ blockNumber <= challenges[challengeId].revealDeadline
    /\ commitments[challengeId][sender].commitHash # ZeroHash
    /\ ~commitments[challengeId][sender].revealed

\* mutant: reveals are taken while the commit window is still open
revealChecks_NoWindow(sender, challengeId, answer, salt) ==
    /\ challenges[challengeId].startBlock > 0
    /\ blockNumber <= challenges[challengeId].revealDeadline
    /\ commitments[challengeId][sender].commitHash # ZeroHash
    /\ ~commitments[challengeId][sender].revealed
    /\ Keccak(answer, salt) = commitments[challengeId][sender].commitHash

\* mutant: reveals are taken from the commit deadline block on
revealChecks_AtDeadline(sender, challengeId, answer, salt) ==
    /\ challenges[challengeId].startBlock > 0
    /\ blockNumber >= challenges[challengeId].commitDeadline
    /\ blockNumber <= challenges[challengeId].revealDeadline
    /\ commitments[challengeId][sender].commitHash # ZeroHash
    /\ ~commitments[challengeId][sender].revealed
    /\ Keccak(answer, salt) = commitments[challengeId][sender].commitHash

revealChecks(sender, challengeId, answer, salt) ==
    /\ challenges[challengeId].startBlock > 0
    /\ blockNumber > challenges[challengeId].commitDeadline
    /\ blockNumber <= challenges[challengeId].revealDeadline
    /\ commitments[challengeId][sender].commitHash # ZeroHash
    /\ ~commitments[challengeId][sender].revealed
    /\ Keccak(answer, salt) = commitments[challengeId][sender].commitHash

\* mutant: a reveal with the wrong answer or salt fails after the commitment
\* has been marked, and the mark stays
reveal_MarkedOnMismatch(sender, challengeId, answer, salt) ==
    IF revealChecks_NoHashCheck(sender, challengeId, answer, salt)
    THEN /\ commitments' = [commitments EXCEPT
                ![challengeId][sender].revealedAnswer = answer,
                ![challengeId][sender].revealed = TRUE]
         /\ IF Keccak(answer, salt) = commitments[challengeId][sender].commitHash
            THEN /\ Emit(Event("Revealed", challengeId, sender, answer))
                 /\ lastCall' = Call("reveal", sender, challengeId, TRUE)
            ELSE /\ lastCall' = Call("reveal", sender, challengeId, FALSE)
                 /\ UNCHANGED events
         /\ UNCHANGED <<blockNumber, challenges, participants>>
    ELSE Revert("reveal", sender, challengeId)

reveal(sender, challengeId, answer, salt) ==
    IF revealChecks(sender, challengeId, answer, salt)
    THEN /\ commitments' = [commitments EXCEPT
                ![challengeId][sender].revealedAnswer = answer,
                ![challengeId][sender].revealed = TRUE]
         /\ Emit(Event("Revealed", challengeId, sender, answer))
         /\ lastCall' = Call("reveal", sender, challengeId, TRUE)
         /\ UNCHANGED <<blockNumber, challenges, participants>>
    ELSE Revert("reveal", sender, challengeId)

RECURSIVE MinBlock(_, _), MaxBlockOf(_, _), RevealedCount(_, _)
\* the loop of finalize over parts, one definition per accumulator
MinBlock(challengeId, parts) ==
    IF parts = <<>> THEN 1000000
    ELSE LET b == commitments[challengeId][Head(parts)].commitBlock
             m == MinBlock(challengeId, Tail(parts))
         IN IF b < m THEN b ELSE m

MaxBlockOf(challengeId, parts) ==
    IF parts = <<>> THEN 0
    ELSE LET b == commitments[challengeId][Head(parts)].commitBlock
             m == MaxBlockOf(challengeId, Tail(parts))
         IN IF b > m THEN b ELSE m

RevealedCount(challengeId, parts) ==
    IF parts = <<>> THEN 0
    ELSE (IF commitments[challengeId][Head(parts)].revealed THEN 1 ELSE 0)
         + RevealedCount(challengeId, Tail(parts))

SpreadScore(blockSpread) ==
    IF blockSpread <= 2 THEN 100
    ELSE IF blockSpread <= 5 THEN 80
    ELSE IF blockSpread <= 10 THEN 60
    ELSE 40

\* mutant: the reveal rate is read off the first participant of the list
FinalScore_FirstParticipant(challengeId) ==
    LET parts == participants[challengeId]
        participantCount == Len(parts)
    IN IF participantCount = 0 THEN 0
       ELSE LET blockSpread == MaxBlockOf(challengeId, parts)
                               - MinBlock(challengeId, parts)
                spreadScore == SpreadScore(blockSpread)
                revealScore == IF commitments[challengeId][Head(parts)].revealed
                               THEN 100 ELSE 0
            IN (spreadScore \div 2) + (revealScore \div 2)

\* the score finalize stores (uint8 arithmetic, integer division)
FinalScore(challengeId) ==
    LET parts == participants[challengeId]
        participantCount == Len(parts)
    IN IF participantCount = 0 THEN 0
       ELSE LET blockSpread == MaxBlockOf(challengeId, parts)
                               - MinBlock(challengeId, parts)
                spreadScore == SpreadScore(blockSpread)
                revealScore == (RevealedCount(challengeId, parts) * 100)
                               \div participantCount
            IN (spreadScore \div 2) + (revealScore \div 2)

\* mutant: finalize does not wait for the reveal deadline
finalizeChecks_NoDeadline(sender, challengeId) ==
    /\ challenges[challengeId].startBlock > 0
    /\ ~challenges[challengeId].finalized
    /\ sender = challenges[challengeId].verifier

\* mutant: finalize does not look at the finalized flag
finalizeChecks_Repeatable(sender, challengeId) ==
    /\ challenges[challengeId].startBlock > 0
    /\ blockNumber > challenges[challengeId].revealDeadline
    /\ sender = challenges[challengeId].verifier

\* mutant: finalize does not look at the caller
finalizeChecks_AnySender(sender, challengeId) ==
    /\ challenges[challengeId].startBlock > 0
    /\ blockNumber > challenges[challengeId].revealDeadline
    /\ ~challenges[challengeId].finalized

\* mutant: finalize wants at least one participant
finalizeChecks_NeedsParticipants(sender, challengeId) ==
    /\ challenges[challengeId].startBlock > 0
    /\ blockNumber > challenges[challengeId].revealDeadline
    /\ ~challenges[challengeId].finalized
    /\ sender = challenges[challengeId].verifier
    /\ participants[challengeId] # <<>>

finalizeChecks(sender, challengeId) ==
    /\ challenges[challengeId].startBlock > 0
    /\ blockNumber > challenges[challengeId].revealDeadline
    /\ ~challenges[challengeId].finalized
    /\ sender = challenges[challengeId].verifier

finalize(sender, challengeId) ==
    IF finalizeChecks(sender, challengeId)
    THEN /\ challenges' = [challenges EXCEPT
                ![challengeId].finalized = TRUE,
                ![challengeId].score = FinalScore(challengeId)]
         /\ Emit(Event("Finalized", challengeId, sender, FinalScore(challengeId)))
         /\ lastCall' = Call("finalize", sender, challengeId, TRUE)
         /\ UNCHANGED <<blockNumber, commitments, participants>>
    ELSE Revert("finalize", sender, challengeId)

\* the challenge ids transactions are sent to: every existing challenge and
\* one id that names no challenge
Targets == {id \in Ids : challenges[id].startBlock > 0} \cup {UnknownId}

RECURSIVE SumLen(_)
SumLen(S) ==
    IF S = {} THEN 0
    ELSE LET id == CHOOSE x \in S : TRUE
         IN Len(participants[id]) + SumLen(S \ {id})

\* accepted commits so far, over all challenges
NumCommits == SumLen(Ids)

\* the chain produces the next block
Mine ==
    /\ blockNumber < MaxBlock
    /\ blockNumber' = blockNumber + 1
    /\ UNCHANGED <<challenges, commitments, participants, events, lastCall>>

CreateChallengeTx ==
    /\ lastCall = NoCall
    /\ \E sender \in Verifiers, p \in PromptHashes,
          cb \in PhaseLengths, rb \in PhaseLengths :
            /\ \/ NumOpen = 0
               \/ challenges[ChallengeId(p, blockNumber, sender)].startBlock > 0
            /\ createChallenge(sender, p, cb, rb)
    /\ UNCHANGED <<dispVars, scoreVars, serverVars>>

CommitTx ==
    /\ lastCall = NoCall
    /\ \E sender \in Addr, id \in Targets, h \in CommitHashes :
          /\ commitChecks(sender, id) => NumCommits < MaxParticipants
          /\ commit(sender, id, h)
    /\ UNCHANGED <<dispVars, scoreVars, serverVars>>

RevealTx ==
    /\ lastCall = NoCall
    /\ \E sender \in Addr, id \in Targets, a \in Answers, s \in Salts :
          reveal(sender, id, a, s)
    /\ UNCHANGED <<dispVars, scoreVars, serverVars>>

FinalizeTx ==
    /\ lastCall = NoCall
    /\ \E sender \in Addr, id \in Targets : finalize(sender, id)
    /\ UNCHANGED <<dispVars, scoreVars, serverVars>>

MineBlock ==
    /\ lastCall = NoCall
    /\ Mine
    /\ UNCHANGED <<dispVars, scoreVars, serverVars>>

\* the contract is not deployed
IdleChain ==
    /\ blockNumber = 0
    /\ challenges = <<>>
    /\ commitments = <<>>
    /\ participants = <<>>
    /\ events = EmptyBag
    /\ lastCall = NoCall

\* the transaction's outcome has been returned to its sender; the next
\* transaction or block follows
Receipt ==
    /\ lastCall # NoCall
    /\ lastCall' = NoCall
    /\ UNCHANGED <<blockNumber, challenges, commitments, participants, events>>
    /\ UNCHANGED <<dispVars, scoreVars, serverVars>>

IdleDispatch ==
    /\ agents = <<>>
    /\ task = <<>>
    /\ dispatch = [pc |-> "idle"]
    /\ now = 0

IdleScore == verification = [pc |-> "idle"]

IdleServer == requests = <<>> /\ verifications = <<>>

Init == InitChain /\ IdleDispatch /\ IdleScore /\ IdleServer

Next ==
    CreateChallengeTx \/ CommitTx \/ RevealTx \/ FinalizeTx \/ MineBlock \/ Receipt

Spec == Init /\ [][Next]_vars

(***************************************************************************)
(* Properties of SwarmChallenge (specification Spec)                       *)
(***************************************************************************)
Range(seq) == {seq[i] : i \in DOMAIN seq}

Accepted(op) == lastCall.op = op /\ lastCall.ok
Rejected(op) == lastCall.op = op /\ ~lastCall.ok

\* C3 (as claimed): once a commit by agent A on challenge C has been
\* accepted, every later commit by A on C is rejected whatever the hashes
\* are, and the commit hash and commit block stored for (C, A) never change.
C3_CommitWriteOnce ==
    [][ /\ (lastCall'.op = "commit" /\ lastCall'.ok)
            => lastCall'.sender \notin Range(participants[lastCall'.id])
        /\ \A id \in Ids : \A a \in Range(participants[id]) :
             /\ commitments'[id][a].commitHash = commitments[id][a].commitHash
             /\ commitments'[id][a].commitBlock = commitments[id][a].commitBlock
      ]_vars

\* C4: a commitment marked revealed holds an answer whose hash with some salt
\* is exactly its stored commit hash, and a reveal that was accepted was sent
\* by the holder of such a commitment.
C4_RevealMatchesCommit ==
    /\ \A id \in Ids : \A a \in Addr :
         commitments[id][a].revealed =>
            \E s \in Salts :
               Keccak(commitments[id][a].revealedAnswer, s)
                  = commitments[id][a].commitHash
    /\ Accepted("reveal") => commitments[lastCall.id][lastCall.sender].revealed

C4_Witness ==
    /\ Accepted("reveal")
    /\ commitments[lastCall.id][lastCall.sender].revealed
    /\ commitments[lastCall.id][lastCall.sender].revealedAnswer \in Answers

\* C5: a reveal by A on C at height b is accepted only if
\* commitDeadline(C) < b <= revealDeadline(C), A has an accepted commit on C
\* (A is in C's participant list) and A has not revealed on C yet.
C5_RevealOnlyInWindowOnce ==
    [][ (lastCall'.op = "reveal" /\ lastCall'.ok) =>
          LET id == lastCall'.id
              a  == lastCall'.sender
          IN /\ challenges[id].commitDeadline < blockNumber
             /\ blockNumber <= challenges[id].revealDeadline
             /\ a \in Range(participants[id])
             /\ ~commitments[id][a].revealed
      ]_vars

\* a second reveal with the right answer and salt, inside the reveal window,
\* by an agent that has revealed already, was rejected
C5_Witness ==
    /\ Rejected("reveal")
    /\ lastCall.id # UnknownId
    /\ commitments[lastCall.id][lastCall.sender].revealed
    /\ challenges[lastCall.id].commitDeadline < blockNumber
    /\ blockNumber <= challenges[lastCall.id].revealDeadline

C7_FinalizeAfterRevealDeadline ==
    /\ Accepted("finalize") => blockNumber > challenges[lastCall.id].revealDeadline
    /\ \A id \in Ids :
          challenges[id].finalized => blockNumber > challenges[id].revealDeadline

\* the creator's finalize at the reveal deadline itself was rejected
C7_Witness ==
    /\ Rejected("finalize")
    /\ lastCall.id # UnknownId
    /\ lastCall.sender = challenges[lastCall.id].verifier
    /\ blockNumber = challenges[lastCall.id].revealDeadline

\* C8: a finalize call is accepted only on a challenge whose finalized flag
\* is not set, so at most one finalize is accepted per challenge.
C8_FinalizeOnce ==
    [][ (lastCall'.op = "finalize" /\ lastCall'.ok) =>
          /\ ~challenges[lastCall'.id].finalized
          /\ challenges'[lastCall'.id].finalized
      ]_vars

\* the creator's second finalize, after the reveal deadline, was rejected
C8_Witness ==
    /\ Rejected("finalize")
    /\ lastCall.id # UnknownId
    /\ lastCall.sender = challenges[lastCall.id].verifier
    /\ blockNumber > challenges[lastCall.id].revealDeadline
    /\ challenges[lastCall.id].finalized

\* C9: finalize(C) is accepted only from the address that created C; from
\* any other address it is rejected and leaves the challenge unchanged.
C9_OnlyVerifierFinalizes ==
    [][ /\ (lastCall'.op = "finalize" /\ lastCall'.ok)
            => lastCall'.sender = challenges[lastCall'.id].verifier
        /\ (lastCall'.op = "finalize"
              /\ lastCall'.sender # challenges[lastCall'.id].verifier)
            => /\ ~lastCall'.ok
               /\ challenges'[lastCall'.id] = challenges[lastCall'.id]
      ]_vars

\* another address called finalize after the reveal deadline on a challenge
\* that was not finalized, and was rejected
C9_Witness ==
    /\ Rejected("finalize")
    /\ lastCall.id # UnknownId
    /\ lastCall.sender # challenges[lastCall.id].verifier
    /\ blockNumber > challenges[lastCall.id].revealDeadline
    /\ ~challenges[lastCall.id].finalized

\* C10: finalization is terminal: no step changes the record, the
\* participant list or a commitment of a finalized challenge.
C10_FinalizedIsFrozen ==
    [][ \A id \in Ids :
          challenges[id].finalized =>
             /\ challenges'[id] = challenges[id]
             /\ participants'[id] = participants[id]
             /\ commitments'[id] = commitments[id]
      ]_vars

\* a challenge was created while a finalized one with participants exists
C10_Witness ==
    /\ Accepted("createChallenge")
    /\ \E id \in Ids :
          /\ challenges[id].finalized
          /\ id # lastCall.id
          /\ participants[id] # <<>>

\* C11: every rejected call (createChallenge, commit, reveal or finalize,
\* whatever the reason, a call on an id that names no challenge included)
\* leaves challenges, commitments, the participant lists and the log exactly
\* as they were before the call.
C11_RejectedCallChangesNothing ==
    [][ (lastCall'.op # "none" /\ ~lastCall'.ok) =>
           UNCHANGED <<challenges, commitments, participants, events>>
      ]_vars

\* a reveal inside the reveal window by an agent that committed and has not
\* revealed was rejected (the hash did not match) and the commitment is
\* still not marked
C11_Witness ==
    /\ Rejected("reveal")
    /\ lastCall.id # UnknownId
    /\ challenges[lastCall.id].commitDeadline < blockNumber
    /\ blockNumber <= challenges[lastCall.id].revealDeadline
    /\ commitments[lastCall.id][lastCall.sender].commitHash # ZeroHash
    /\ ~commitments[lastCall.id][lastCall.sender].revealed

\* the entries of the log named name that belong to challenge id
EventsOf(name, id) ==
    {e \in BagToSet(events) : e.name = name /\ e.id = id}

\* the phase an entry of the log belongs to
PhaseOf(name) ==
    CASE name = "Committed" -> 1 [] name = "Revealed" -> 2
      [] name = "Finalized" -> 4

\* commit window 1, reveal window 2, reveal window closed 3, finalized 4
Phase(c, height) ==
    IF c.finalized THEN 4
    ELSE IF height <= c.commitDeadline THEN 1
    ELSE IF height <= c.revealDeadline THEN 2
    ELSE 3

\* C12: the block height never decreases and no challenge ever moves to an
\* earlier phase; for every challenge each accepted commit is at a strictly
\* lower height than each accepted reveal and each accepted reveal at a
\* strictly lower height than the accepted finalize (so no height takes both
\* a commit and a reveal of one challenge), and finalize is accepted once.
C12_PhasesInOrder ==
    /\ [](\A e \in BagToSet(events), f \in BagToSet(events) :
            e.id = f.id =>
               /\ PhaseOf(e.name) < PhaseOf(f.name) => e.block < f.block
               /\ (e.name = "Finalized" /\ f.name = "Finalized") =>
                     e = f /\ CopiesIn(e, events) = 1)
    /\ [][ /\ blockNumber' >= blockNumber
           /\ \A id \in Ids :
                 challenges[id].startBlock > 0 =>
                    Phase(challenges'[id], blockNumber')
                       >= Phase(challenges[id], blockNumber)
         ]_vars

\* a challenge went through all phases: commits at two heights, a reveal and
\* the finalize are in the log
C12_Witness ==
    \E id \in Ids :
       /\ Cardinality({c.block : c \in EventsOf("Committed", id)}) = 2
       /\ EventsOf("Revealed", id) # {}
       /\ EventsOf("Finalized", id) # {}

RECURSIVE SumOver(_, _)
\* the sum of w[x] over the elements x of S
SumOver(S, w) ==
    IF S = {} THEN 0
    ELSE LET x == CHOOSE y \in S : TRUE
         IN w[x] + SumOver(S \ {x}, w)

\* the score as a function of the bag of Committed and Revealed entries of a
\* challenge alone: who committed how often and at which heights, and who
\* revealed
ScoreOfEvents(id) ==
    LET commits  == EventsOf("Committed", id)
        reveals  == EventsOf("Revealed", id)
        copies   == [e \in commits |-> CopiesIn(e, events)]
        count    == SumOver(commits, copies)
        lastOf   == [e \in commits |->
                       CHOOSE b \in {d.block : d \in commits} :
                          /\ \E d \in commits : d.agent = e.agent /\ d.block = b
                          /\ \A d \in commits : d.agent = e.agent => d.block <= b]
        hi       == CHOOSE b \in {lastOf[e] : e \in commits} :
                       \A e \in commits : lastOf[e] <= b
        lo       == CHOOSE b \in {lastOf[e] : e \in commits} :
                       \A e \in commits : lastOf[e] >= b
        revealed == [e \in commits |->
                       IF \E r \in reveals : r.agent = e.agent
                       THEN copies[e] ELSE 0]
    IN IF count = 0 THEN 0
       ELSE (SpreadScore(hi - lo) \div 2)
            + (((SumOver(commits, revealed) * 100) \div count) \div 2)

\* C13: the score finalize stores is determined by the bag of accepted
\* commits and reveals with their block heights, whatever their order inside
\* a block was: two executions with the same bag finalize with the same
\* score.
C13_ScoreIgnoresOrderInBlock ==
    \A id \in Ids :
       challenges[id].finalized =>
          /\ challenges[id].score = ScoreOfEvents(id)
          /\ \A f \in EventsOf("Finalized", id) : f.arg = ScoreOfEvents(id)

\* a finalized challenge on which two agents committed in the same block and
\* exactly one of them revealed
C13_Witness ==
    \E id \in Ids :
       /\ challenges[id].finalized
       /\ \E c, d \in EventsOf("Committed", id) :
             /\ c.agent # d.agent
             /\ c.block = d.block
             /\ \E r \in EventsOf("Revealed", id) : r.agent = c.agent
             /\ \A r \in EventsOf("Revealed", id) : r.agent # d.agent

\* C15: the creator's finalize after the reveal deadline on a challenge that
\* is not finalized and has no participant is accepted, sets the finalized
\* flag and stores score 0.
C15_FinalizeWithoutParticipants ==
    [][ (/\ lastCall'.op = "finalize"
         /\ challenges[lastCall'.id].startBlock > 0
         /\ lastCall'.sender = challenges[lastCall'.id].verifier
         /\ blockNumber > challenges[lastCall'.id].revealDeadline
         /\ ~challenges[lastCall'.id].finalized
         /\ participants[lastCall'.id] = <<>>)
        => /\ lastCall'.ok
           /\ challenges'[lastCall'.id].finalized
           /\ challenges'[lastCall'.id].score = 0
           /\ participants'[lastCall'.id] = <<>>
      ]_vars

\* finalize was accepted on a challenge nobody committed to
C15_Witness ==
    /\ Accepted("finalize")
    /\ participants[lastCall.id] = <<>>
    /\ challenges[lastCall.id].finalized
    /\ challenges[lastCall.id].score = 0

\* the agents with a recorded commitment on a challenge
Committed(id) == {a \in Addr : commitments[id][a].commitBlock > 0}

\* C36: the participant list of a challenge contains each address at most
\* once, its length is the number of distinct agents with a recorded
\* commitment, and the revealed commitments counted over it are never more
\* than its entries.
C36_ParticipantsDistinct ==
    \A id \in Ids :
        /\ Len(participants[id]) = Cardinality(Range(participants[id]))
        /\ Len(participants[id]) = Cardinality(Committed(id))
        /\ RevealedCount(id, participants[id]) <= Len(participants[id])

\* C37: createChallenge never alters an existing challenge: the prompt
\* hash, start block, deadlines, creator, finalized flag and score of every
\* challenge created before the call are the same after it.
C37_CreateLeavesExisting ==
    [][lastCall'.op = "createChallenge" =>
         \A id \in Ids :
             challenges[id].startBlock > 0 => challenges'[id] = challenges[id]
      ]_vars

MaxEntries == 3     \* longest participant list finalized

\* the agents that committed
Committers == {1, 2, 3}

\* the heights their commits were accepted at
CommitHeights == {1, 3, 4, 7, 11, 12, 16}

\* the challenge: created by verifier 1 in block 1 with commitBlocks = 16 and
\* revealBlocks = 1
FinId == ChallengeId(1, 1, 1)

FinChallenge ==
    [promptHash |-> 1, startBlock |-> 1, commitDeadline |-> 17,
     revealDeadline |-> 18, verifier |-> 1, finalized |-> FALSE, score |-> 0]

\* what commit and reveal leave in a participant's slot
FinCommitments ==
    {[commitHash |-> Keccak(1, 1), commitBlock |-> b,
      revealedAnswer |-> IF r THEN 1 ELSE 0, revealed |-> r] :
        b \in CommitHeights, r \in BOOLEAN}

\* participant lists: one entry per accepted commit (an agent whose earlier
\* commits carried bytes32(0) has several)
ParticipantLists == UNION {[1..n -> Committers] : n \in 0..MaxEntries}

\* the log of the commit and reveal phases that left parts and slots behind
FinEvents(parts, slots) ==
    LET committed == {[name |-> "Committed", id |-> FinId, agent |-> a,
                       block |-> slots[a].commitBlock,
                       arg |-> slots[a].commitBlock] : a \in Range(parts)}
        revealed  == {[name |-> "Revealed", id |-> FinId, agent |-> a,
                       block |-> FinChallenge.revealDeadline,
                       arg |-> slots[a].revealedAnswer] :
                         a \in {x \in Range(parts) : slots[x].revealed}}
    IN [e \in committed \cup revealed |->
          IF e.name = "Committed"
          THEN Cardinality({i \in DOMAIN parts : parts[i] = e.agent})
          ELSE 1]

InitFinalize ==
    \E parts \in ParticipantLists :
       \E slots \in [Range(parts) -> FinCommitments] :
          /\ blockNumber = FinChallenge.revealDeadline + 1
          /\ challenges = [id \in Ids |->
                             IF id = FinId THEN FinChallenge ELSE NoChallenge]
          /\ commitments = [id \in Ids |-> [a \in Committers |->
                             IF id = FinId /\ a \in Range(parts)
                             THEN slots[a] ELSE NoCommitment]]
          /\ participants = [id \in Ids |->
                               IF id = FinId THEN parts ELSE <<>>]
          /\ events = FinEvents(parts, slots)
          /\ lastCall = NoCall

InitF == InitFinalize /\ IdleDispatch /\ IdleScore /\ IdleServer

NextFinalize == FinalizeTx \/ Receipt

SpecFinalize == InitF /\ [][NextFinalize]_vars

\* the participants of a challenge that revealed
RevealedSet(id) == {a \in Range(participants[id]) : commitments[id][a].revealed}

\* max(commit block) - min(commit block) over the participants
Spread(id) ==
    LET blocks == {commitments[id][a].commitBlock : a \in Range(participants[id])}
    IN (CHOOSE b \in blocks : \A x \in blocks : x <= b)
       - (CHOOSE b \in blocks : \A x \in blocks : x >= b)

\* the band of a spread as the claim gives it
Band(spread) ==
    CASE spread <= 2 -> 100
      [] spread > 2 /\ spread <= 5 -> 80
      [] spread > 5 /\ spread <= 10 -> 60
      [] spread > 10 -> 40

\* C14 (as claimed): the score stored for a challenge with participants is
\* 0.5 * spreadScore + 0.5 * revealRate with revealRate = revealedCount /
\* participantCount * 100; multiplied by 2 * participantCount on both sides.
C14_ScoreIsHalfSpreadHalfRevealRate ==
    \A id \in Ids :
       (challenges[id].finalized /\ participants[id] # <<>>) =>
          LET n == Cardinality(Range(participants[id]))
              r == Cardinality(RevealedSet(id))
          IN 2 * n * challenges[id].score = n * Band(Spread(id)) + 100 * r

(***************************************************************************)
(* Analyzer: analyzeSwarm and its score functions (specification SpecScore)*)
(*                                                                         *)
(* Latencies and lengths are integers.  A score, which the program holds   *)
(* as a double, is an integer number of thousandths of a point (100 points *)
(* = 100000), rounded down; NaN is the one non-number.                     *)
(***************************************************************************)
MaxSwarm == 3       \* largest agent list analysed

\* latencyMs values of the analysed responses
Latencies == {0, 300, 2100, 7100}

\* response texts, as their words separated by single blanks
Texts == {<<"32">>, <<"64">>, <<"Blue", "sky">>, <<"blue">>}

\* the value a division 0 / 0 yields, kept apart from every number a score
\* or an intermediate result can be
NaN == -2147483647

WordLen(w) == CASE w = "32" -> 2 [] w = "64" -> 2 [] w = "Blue" -> 4
                [] w = "blue" -> 4 [] w = "sky" -> 3
                [] w = "The" -> 3 [] w = "answer" -> 6 [] w = "is" -> 2
                [] w = "thirty-two" -> 10 [] w = "32!" -> 3 [] w = "I" -> 1
                [] w = "think" -> 5 [] w = "it's" -> 4 [] w = "comes" -> 5
                [] w = "next" -> 4

\* String.prototype.toLowerCase on a word
Lower(w) == CASE w = "Blue" -> "blue" [] w = "The" -> "the" [] w = "I" -> "i"
              [] OTHER -> w

RECURSIVE WordsLen(_)
WordsLen(text) ==
    IF text = <<>> THEN 0 ELSE WordLen(Head(text)) + WordsLen(Tail(text))

\* r.response.length
TextLength(text) == IF text = <<>> THEN 0 ELSE WordsLen(text) + Len(text) - 1

\* new Set(r.response.toLowerCase().split(/\s+/))
Tokens(text) == {Lower(text[i]) : i \in DOMAIN text}

\* a ChallengeResponse of an agent that failed / that answered; error = ""
\* stands for the record having no error field
ErrorResponse ==
    [error |-> "All endpoint variants failed", latencyMs |-> 0, response |-> <<>>]
OkResponse(l, t) == [error |-> "", latencyMs |-> l, response |-> t]
Responses == {ErrorResponse} \cup {OkResponse(l, t) : l \in Latencies, t \in Texts}

RECURSIVE SumSeq(_)
SumSeq(q) == IF q = <<>> THEN 0 ELSE Head(q) + SumSeq(Tail(q))

RECURSIVE SumSq(_)
SumSq(q) == IF q = <<>> THEN 0 ELSE Head(q) * Head(q) + SumSq(Tail(q))

RECURSIVE SqrtIn(_, _, _)
SqrtIn(x, lo, hi) ==
    IF lo >= hi THEN lo
    ELSE LET mid == (lo + hi + 1) \div 2
         IN IF mid * mid <= x THEN SqrtIn(x, mid, hi) ELSE SqrtIn(x, lo, mid - 1)

\* Math.sqrt, rounded down to an integer
Sqrt(x) == SqrtIn(x, 0, 46340)

Max0(x) == IF x = NaN THEN NaN ELSE IF x > 0 THEN x ELSE 0

\* sqrt(x) * k, rounded down, for the largest k in {1000, 100, 10, 1} that
\* keeps x * k * k inside the integers: <<root, k>>
ScaledSqrt(x) ==
    IF x <= 2147 THEN <<Sqrt(x * 1000000), 1000>>
    ELSE IF x <= 214748 THEN <<Sqrt(x * 10000), 100>>
    ELSE IF x <= 21474836 THEN <<Sqrt(x * 100), 10>>
    ELSE <<Sqrt(x), 1>>

RECURSIVE SqDiffs(_, _)
SqDiffs(x, q) ==
    IF q = <<>> THEN 0
    ELSE (x - Head(q)) * (x - Head(q)) + SqDiffs(x, Tail(q))

RECURSIVE PairSq(_)
\* the sum of (q[i] - q[j])^2 over the pairs i < j, which is n * Q - S * S
\* for n = Len(q), S the sum and Q the sum of the squares of q
PairSq(q) ==
    IF q = <<>> THEN 0 ELSE SqDiffs(Head(q), Tail(q)) + PairSq(Tail(q))

\* stdDev / mean of the values of q, in thousandths; with n = Len(q),
\* S = sum and Q = sum of squares: mean = S / n, variance = (n*Q - S*S) / n^2,
\* so stdDev / mean = sqrt(n*Q - S*S) / S.  zeroMean is the value when S = 0.
CvMilli(q, zeroMean) ==
    LET n == Len(q)
        S == SumSeq(q)
        r == ScaledSqrt(PairSq(q))
    IN IF S = 0 THEN zeroMean
       ELSE (r[1] * 1000) \div (r[2] * S)

NoError(r) == r.error = ""
NoErrorAndText(r) == r.error = "" /\ r.response # <<>>

\* mutant: the duration an agent reports itself is taken where there is one
LatenciesOf_SelfReported(q) ==
    [i \in DOMAIN q |-> IF q[i].selfReportedMs > 0 THEN q[i].selfReportedMs
                        ELSE q[i].latencyMs]

LatenciesOf(q) == [i \in DOMAIN q |-> q[i].latencyMs]
LengthsOf(q) == [i \in DOMAIN q |-> TextLength(q[i].response)]

\* mutant: the second band starts from 90 points
scoreResponseTime_RaisedBand(responses) ==
    LET successful == SelectSeq(responses, NoError)
        n == Len(successful)
        S == SumSeq(LatenciesOf(successful))
    IN IF n = 0 THEN 0
       ELSE IF S < 500 * n THEN 100000
       ELSE IF S < 2000 * n THEN 90000 + ((2000 * n - S) * 1000) \div (75 * n)
       ELSE IF S < 5000 * n THEN 50000 + ((5000 * n - S) * 10) \div n
       ELSE Max0(50000 - ((S - 5000 * n) * 5) \div n)

\* mutant: the top band ends at a mean latency of 300 ms
scoreResponseTime_Below300(responses) ==
    LET successful == SelectSeq(responses, NoError)
        n == Len(successful)
        S == SumSeq(LatenciesOf(successful))
    IN IF n = 0 THEN 0
       ELSE IF S < 300 * n THEN 100000
       ELSE IF S < 2000 * n THEN 80000 + ((2000 * n - S) * 1000) \div (75 * n)
       ELSE IF S < 5000 * n THEN 50000 + ((5000 * n - S) * 10) \div n
       ELSE Max0(50000 - ((S - 5000 * n) * 5) \div n)

scoreResponseTime(responses) ==
    LET successful == SelectSeq(responses, NoError)
        n == Len(successful)
        S == SumSeq(LatenciesOf(successful))
    IN IF n = 0 THEN 0
       ELSE IF S < 500 * n THEN 100000
       ELSE IF S < 2000 * n THEN 80000 + ((2000 * n - S) * 1000) \div (75 * n)
       ELSE IF S < 5000 * n THEN 50000 + ((5000 * n - S) * 10) \div n
       ELSE Max0(50000 - ((S - 5000 * n) * 5) \div n)

\* mutant: the band from 0.5 to 1.0 falls by 90 points for each unit
scoreTimeVariance_SteepBand(responses) ==
    LET successful == SelectSeq(responses, NoError)
        cv == CvMilli(LatenciesOf(successful), NaN)
    IN IF Len(successful) < 2 THEN 50000
       ELSE IF cv = NaN THEN NaN
       ELSE IF cv < 100 THEN 100000
       ELSE IF cv < 300 THEN 80000 + (300 - cv) * 100
       ELSE IF cv < 500 THEN 60000 + (500 - cv) * 100
       ELSE IF cv < 1000 THEN 30000 + (1000 - cv) * 90
       ELSE Max0(30000 - (cv - 1000) * 30)

\* mutant: the coefficient of variation is scored for a single latency too
scoreTimeVariance_NoNeutral(responses) ==
    LET successful == SelectSeq(responses, NoError)
        cv == CvMilli(LatenciesOf(successful), NaN)
    IN IF Len(successful) < 1 THEN 50000
       ELSE IF cv = NaN THEN NaN
       ELSE IF cv < 100 THEN 100000
       ELSE IF cv < 300 THEN 80000 + (300 - cv) * 100
       ELSE IF cv < 500 THEN 60000 + (500 - cv) * 100
       ELSE IF cv < 1000 THEN 30000 + (1000 - cv) * 60
       ELSE Max0(30000 - (cv - 1000) * 30)

scoreTimeVariance(responses) ==
    LET successful == SelectSeq(responses, NoError)
        cv == CvMilli(LatenciesOf(successful), NaN)
    IN IF Len(successful) < 2 THEN 50000
       ELSE IF cv = NaN THEN NaN
       ELSE IF cv < 100 THEN 100000
       ELSE IF cv < 300 THEN 80000 + (300 - cv) * 100
       ELSE IF cv < 500 THEN 60000 + (500 - cv) * 100
       ELSE IF cv < 1000 THEN 30000 + (1000 - cv) * 60
       ELSE Max0(30000 - (cv - 1000) * 30)

\* intersection / union of two token sets, in millionths
Jaccard(a, b) == (Cardinality(a \cap b) * 1000000) \div Cardinality(a \cup b)

RECURSIVE OverlapSum(_, _, _)
\* the double loop of scoreConsistency: the sum over i < j, from pair (i, j) on
OverlapSum(tokens, i, j) ==
    IF i > Len(tokens) THEN 0
    ELSE IF j > Len(tokens) THEN OverlapSum(tokens, i + 1, i + 2)
    ELSE Jaccard(tokens[i], tokens[j]) + OverlapSum(tokens, i, j + 1)

\* mutant: without any usable response the consistency is 0, not neutral
scoreConsistency_ZeroWithoutAnswers(responses) ==
    LET successful == SelectSeq(responses, NoErrorAndText)
        n == Len(successful)
        lengthCV == CvMilli(LengthsOf(successful), 1000)
        tokens == [i \in DOMAIN successful |-> Tokens(successful[i].response)]
        comparisons == (n * (n - 1)) \div 2
        avgOverlap == IF comparisons > 0
                      THEN OverlapSum(tokens, 1, 2) \div comparisons ELSE 0
        lengthScore == Max0(100000 - lengthCV * 100)
        overlapScoreNorm == avgOverlap \div 10
    IN IF n = 0 THEN 0
       ELSE IF n < 2 THEN 50000
       ELSE (lengthScore * 4 + overlapScoreNorm * 6) \div 10

scoreConsistency(responses) ==
    LET successful == SelectSeq(responses, NoErrorAndText)
        n == Len(successful)
        lengthCV == CvMilli(LengthsOf(successful), 1000)
        tokens == [i \in DOMAIN successful |-> Tokens(successful[i].response)]
        comparisons == (n * (n - 1)) \div 2
        avgOverlap == IF comparisons > 0
                      THEN OverlapSum(tokens, 1, 2) \div comparisons ELSE 0
        lengthScore == Max0(100000 - lengthCV * 100)
        overlapScoreNorm == avgOverlap \div 10
    IN IF n < 2 THEN 50000
       ELSE (lengthScore * 4 + overlapScoreNorm * 6) \div 10

\* mutant: the share is taken among the agents that answered
scoreParticipation_OfAnswered(responses, totalAgents) ==
    LET n == Len(SelectSeq(responses, NoError))
    IN IF n = 0 THEN 0 ELSE (n * 100000) \div n

scoreParticipation(responses, totalAgents) ==
    (Len(SelectSeq(responses, NoError)) * 100000) \div totalAgents

\* getVerdict on a score in thousandths; every comparison with NaN is false
getVerdict(score) ==
    IF score # NaN /\ score >= 70000 THEN "genuine"
    ELSE IF score # NaN /\ score >= 40000 THEN "suspicious"
    ELSE "likely_fake"

\* Math.round on a non-negative score in thousandths: the nearest integer,
\* halves up
Round(score) == IF score = NaN THEN NaN ELSE (score + 500) \div 1000

\* mutant: the response time counts 40%, the other scores 20% each
Mean4_ResponseTimeFirst(a, b, c, d) ==
    IF NaN \in {a, b, c, d} THEN NaN ELSE (4 * a + 2 * b + 2 * c + 2 * d) \div 10

\* a sum of doubles is NaN as soon as one of them is
Mean4(a, b, c, d) ==
    IF NaN \in {a, b, c, d} THEN NaN ELSE (a + b + c + d) \div 4

\* mutant: the time of the analysis is counted into every latency
analyzeSwarm_AgedLatencies(agentList, responses) ==
    LET aged == [i \in DOMAIN responses |->
                   [responses[i] EXCEPT !.latencyMs = @ + 5000 * now]]
        scores == [responseTime  |-> scoreResponseTime(aged),
                   timeVariance  |-> scoreTimeVariance(aged),
                   consistency   |-> scoreConsistency(aged),
                   participation |-> scoreParticipation(aged, Len(agentList))]
        overallScore == Mean4(scores.responseTime, scores.timeVariance,
                              scores.consistency, scores.participation)
    IN [pc |-> "done",
        agents |-> agentList,
        responses |-> responses,
        scores |-> scores,
        overallScore |-> Round(overallScore),
        verdict |-> getVerdict(overallScore)]

analyzeSwarm(agentList, responses) ==
    LET scores == [responseTime  |-> scoreResponseTime(responses),
                   timeVariance  |-> scoreTimeVariance(responses),
                   consistency   |-> scoreConsistency(responses),
                   participation |-> scoreParticipation(responses, Len(agentList))]
        overallScore == Mean4(scores.responseTime, scores.timeVariance,
                              scores.consistency, scores.participation)
    IN [pc |-> "done",
        agents |-> agentList,
        responses |-> responses,
        scores |-> scores,
        overallScore |-> Round(overallScore),
        verdict |-> getVerdict(overallScore)]

\* response sets with one response per agent of a swarm of n agents
ResponseSets(n) == [1..n -> Responses]

InitScore ==
    \E n \in 2..MaxSwarm : \E rs \in ResponseSets(n) :
        verification = [pc |-> "input", agents |-> [i \in 1..n |-> i],
                        responses |-> rs]

Analyze ==
    /\ verification.pc = "input"
    /\ verification' = analyzeSwarm(verification.agents, verification.responses)
    /\ UNCHANGED <<chainVars, dispVars, serverVars>>

InitS == IdleChain /\ IdleDispatch /\ InitScore /\ IdleServer

NextScore == Analyze

SpecScore == InitS /\ [][NextScore]_vars

\* C2 (as claimed): in every Verification the verdict is the threshold policy
\* applied to the overall score stored in it: genuine iff overallScore >= 70,
\* suspicious iff 40 <= overallScore < 70, likely_fake iff overallScore < 40.
C2_VerdictMatchesStoredScore ==
    verification.pc = "done" =>
        LET o == verification.overallScore
            v == verification.verdict
        IN /\ o # NaN
           /\ (v = "genuine") <=> (o >= 70)
           /\ (v = "suspicious") <=> (40 <= o /\ o < 70)
           /\ (v = "likely_fake") <=> (o < 40)

\* C24: the overall score of every Verification is the unweighted mean
\* (weights 25% each) of the four sub-scores responseTime, timeVariance,
\* consistency and participation, rounded to the nearest integer.
C24_OverallIsRoundedMean ==
    verification.pc = "done" =>
        LET sc == verification.scores
            sum == sc.responseTime + sc.timeVariance + sc.consistency
                     + sc.participation
            o == verification.overallScore
        IN IF NaN \in {sc[f] : f \in DOMAIN sc}
           THEN o = NaN
           ELSE /\ o \in 0..100
                /\ 4000 * o - 2000 <= sum
                /\ sum < 4000 * o + 2000

\* a Verification with four different sub-scores whose mean lies in the upper
\* half between two integers, so that rounding moves it up
C24_Witness ==
    /\ verification.pc = "done"
    /\ LET sc == verification.scores
           sum == sc.responseTime + sc.timeVariance + sc.consistency
                    + sc.participation
       IN /\ NaN \notin {sc[f] : f \in DOMAIN sc}
          /\ Cardinality({sc[f] : f \in DOMAIN sc}) = 4
          /\ sum > 4000 * verification.overallScore - 2000
          /\ sum < 4000 * verification.overallScore

\* C25 (as claimed): for every response set with one response per agent of a
\* swarm of at least 2 agents and non-negative integer latencies, latencies
\* of 0 included, each of the four sub-scores is a defined number in [0,100]
\* and the overall score is in [0,100].
C25_ScoresInRange ==
    verification.pc = "done" =>
        /\ \A f \in DOMAIN verification.scores :
              /\ verification.scores[f] # NaN
              /\ verification.scores[f] \in 0..100000
        /\ verification.overallScore # NaN
        /\ verification.overallScore \in 0..100

\* the responses of a response set that carry no error
Successes(responses) == {i \in DOMAIN responses : responses[i].error = ""}

\* C26: a response set with fewer than two successful responses (in
\* particular with exactly one) yields the neutral constants: time-variance
\* score 50 and consistency score 50.
C26_NeutralBelowTwoSuccesses ==
    (verification.pc = "done"
       /\ Cardinality(Successes(verification.responses)) < 2) =>
        /\ verification.scores.timeVariance = 50000
        /\ verification.scores.consistency = 50000

\* a swarm of three analysed with exactly one successful response
C26_Witness ==
    /\ verification.pc = "done"
    /\ Len(verification.agents) = 3
    /\ Cardinality(Successes(verification.responses)) = 1
    /\ verification.scores.timeVariance = 50000

(***************************************************************************)
(* Analyzer on swarms of demo size (specification SpecScenario): the fast  *)
(* identical answers of the simulated AI swarm and the slow, differing     *)
(* answers of the simulated human swarm.                                   *)
(***************************************************************************)
MaxScenario == 5    \* largest agent list of a scenario

\* latencies of the fast answers, all with the text "32"
FastLatencies == <<100, 300, 320>>

\* latencies of the slow answers, by agent position
SlowLatencies == <<1200, 3400, 7800, 2100, 5200>>

\* the free-text answers of simulateHumanResponse
Variations == << <<"The", "answer", "is", "32">>, <<"thirty-two">>, <<"32!">>,
                 <<"I", "think", "it's", "32">>, <<"32", "comes", "next">> >>

NumChoices == 1 + Len(FastLatencies) + Len(Variations)

\* the k-th response agent i may give: a failure, a fast "32", or a slow
\* free-text answer
ScenarioResponse(i, k) ==
    IF k = 1 THEN ErrorResponse
    ELSE IF k <= 1 + Len(FastLatencies)
    THEN OkResponse(FastLatencies[k - 1], <<"32">>)
    ELSE OkResponse(SlowLatencies[((i - 1) % Len(SlowLatencies)) + 1],
                    Variations[k - 1 - Len(FastLatencies)])

InitScenario ==
    \E n \in 2..MaxScenario : \E choice \in [1..n -> 1..NumChoices] :
        verification = [pc |-> "input", agents |-> [i \in 1..n |-> i],
                        responses |-> [i \in 1..n |->
                                         ScenarioResponse(i, choice[i])]]

InitN == IdleChain /\ IdleDispatch /\ InitScenario /\ IdleServer

SpecScenario == InitN /\ [][NextScore]_vars

\* C27: the participation score is the number of successful responses
\* divided by the number of requested agents, times 100, the denominator
\* being the full requested agent list; 3 successes of 5 requested agents give
\* exactly 60.
C27_ParticipationOverRequested ==
    verification.pc = "done" =>
        LET n == Len(verification.agents)
            k == Cardinality(Successes(verification.responses))
            p == verification.scores.participation
        IN /\ p * n <= k * 100000
           /\ k * 100000 < (p + 1) * n
           /\ (n = 5 /\ k = 3) => p = 60000

\* five agents were requested and exactly three answered
C27_Witness ==
    /\ verification.pc = "done"
    /\ Len(verification.agents) = 5
    /\ Cardinality(Successes(verification.responses)) = 3
    /\ verification.scores.participation = 60000

\* C28 (as claimed): Scenario B: for 5 agents that all respond successfully
\* with latencies 1200, 3400, 7800, 2100 and 5200 ms and five mutually
\* distinct free-text answers, the overall score is below 40 and the verdict
\* is likely_fake.
C28_ScenarioB ==
    (/\ verification.pc = "done"
     /\ Len(verification.agents) = 5
     /\ \A i \in 1..5 :
           /\ verification.responses[i].error = ""
           /\ verification.responses[i].latencyMs = SlowLatencies[i]
           /\ verification.responses[i].response \in Range(Variations)
     /\ \A i, j \in 1..5 :
           i # j => verification.responses[i].response
                       # verification.responses[j].response) =>
        /\ verification.overallScore < 40
        /\ verification.verdict = "likely_fake"

\* C29: Scenario A generalised: whenever all N >= 2 requested agents respond
\* successfully with identical response text, a mean latency below 500 ms
\* and a latency coefficient of variation below 0.1 (as 5 agents answering
\* "32" within 300-320 ms), all four sub-scores are 100, the overall score is
\* 100 and the verdict is genuine.  With n latencies of sum S and sum of
\* squares Q, the coefficient is below 0.1 iff 100 * (n * Q - S * S) < S * S.
C29_ScenarioA ==
    LET rs == verification.responses
        n == Len(rs)
        S == SumSeq(LatenciesOf(rs))
        Q == SumSq(LatenciesOf(rs))
    IN (/\ verification.pc = "done"
        /\ \A i \in DOMAIN rs : rs[i].error = "" /\ rs[i].response = rs[1].response
        /\ S < 500 * n
        /\ S > 0
        /\ n * Q - S * S <= (S * S - 1) \div 100) =>
          /\ \A f \in DOMAIN verification.scores :
                verification.scores[f] = 100000
          /\ verification.overallScore = 100
          /\ verification.verdict = "genuine"

\* five agents answered "32", the fastest after 300 ms and the slowest after
\* 320 ms, and the swarm was scored 100
C29_Witness ==
    /\ verification.pc = "done"
    /\ Len(verification.agents) = 5
    /\ \A i \in 1..5 :
          /\ verification.responses[i] \in
                {OkResponse(300, <<"32">>), OkResponse(320, <<"32">>)}
    /\ \E i, j \in 1..5 : /\ verification.responses[i].latencyMs = 300
                           /\ verification.responses[j].latencyMs = 320
    /\ verification.overallScore = 100

\* C39: when every response of a swarm of two or more agents is an error,
\* the response-time score is 0, the time-variance score 50, the consistency
\* score 50, the participation score 0, the overall score 25 and the verdict
\* likely_fake.
C39_UniversalFailure ==
    (/\ verification.pc = "done"
     /\ \A i \in DOMAIN verification.responses :
            verification.responses[i].error # "")
    => /\ verification.scores.responseTime = 0
       /\ verification.scores.timeVariance = 50000
       /\ verification.scores.consistency = 50000
       /\ verification.scores.participation = 0
       /\ verification.overallScore = 25
       /\ verification.verdict = "likely_fake"

\* C39 witness: a swarm of three agents that all failed has been scored
C39_Witness ==
    /\ verification.pc = "done"
    /\ Len(verification.agents) = 3
    /\ Len(verification.responses) = 3
    /\ \A i \in 1..3 : verification.responses[i] = ErrorResponse
    /\ verification.overallScore = 25

\* C34: the verdicts as the project README documents them: genuine exactly
\* when the overall score is at least 80, suspicious exactly when it is
\* between 50 and 79, likely_fake exactly when it is below 50.
C34_ReadmeVerdicts ==
    verification.pc = "done" =>
        /\ verification.verdict = "genuine"
              <=> verification.overallScore >= 80
        /\ verification.verdict = "suspicious"
              <=> verification.overallScore \in 50..79
        /\ verification.verdict = "likely_fake"
              <=> verification.overallScore < 50

(***************************************************************************)
(* Analyzer at the band boundaries (specification SpecBands): response     *)
(* sets whose mean latency lies at and around the boundaries of            *)
(* scoreResponseTime, response sets whose coefficient of variation lies at *)
(* and around those of scoreTimeVariance, and response sets whose records  *)
(* carry the duration the agent reported itself.                           *)
(***************************************************************************)
\* latencies around 500, 2000 and 5000 ms and beyond the floor at 15000 ms
TimeLatencies == {0, 499, 500, 501, 1999, 2000, 2001, 4999, 5000, 5001,
                  15000, 15001}

\* latencies with coefficients of variation around 0.1, 0.3, 0.5 and 1.0:
\* <<9, 11>> has 0.1, <<7, 13>> has 0.3, <<1, 3>> has 0.5, <<0, 1>> has 1.0
SpreadLatencies == {0, 1, 3, 7, 9, 10, 11, 12, 13}

\* selfReportedMs: data.processingTime, else the X-SVP-Response-Time header,
\* else 0
SelfReports == {0, 50, 9000}

\* a response record as challengeAgent returns it, with selfReportedMs
Reported(r, ms) ==
    [error |-> r.error, latencyMs |-> r.latencyMs, response |-> r.response,
     selfReportedMs |-> ms]

TimeResponses ==
    {Reported(ErrorResponse, 0)} \cup
    {Reported(OkResponse(l, <<"32">>), 0) : l \in TimeLatencies}

SpreadResponses ==
    {Reported(ErrorResponse, 0)} \cup
    {Reported(OkResponse(l, <<"32">>), 0) : l \in SpreadLatencies}

ReportedResponses ==
    {Reported(ErrorResponse, 0)} \cup
    {Reported(OkResponse(l, <<"32">>), ms) : l \in {300, 7100}, ms \in SelfReports}

InitBands ==
    \E n \in 2..MaxSwarm :
      \E family \in {TimeResponses, SpreadResponses, ReportedResponses} :
        \E rs \in [1..n -> family] :
          verification = [pc |-> "input", agents |-> [i \in 1..n |-> i],
                          responses |-> rs]

InitB == IdleChain /\ IdleDispatch /\ InitBands /\ IdleServer

SpecBands == InitB /\ [][NextScore]_vars

\* the response-time score of a single successful response of latency l,
\* whose mean latency is l
ScoreAtMean(l) == scoreResponseTime(<<OkResponse(l, <<"32">>)>>)

\* C31: the response-time score is a monotonically non-increasing function
\* of the mean latency of the successful responses, also across the band
\* boundaries at 500, 2000 and 5000 ms, and is 100 for every mean latency
\* below 500 ms.  The mean S / n of the analysed set is compared with every
\* mean l of TimeLatencies and SpreadLatencies.
C31_ResponseTimeMonotone ==
    LET successful == SelectSeq(verification.responses, NoError)
        n == Len(successful)
        S == SumSeq(LatenciesOf(successful))
        score == verification.scores.responseTime
    IN (verification.pc = "done" /\ n > 0) =>
          /\ S < 500 * n => score = 100000
          /\ \A l \in TimeLatencies \cup SpreadLatencies :
                /\ S <= l * n => score >= ScoreAtMean(l)
                /\ S >= l * n => score <= ScoreAtMean(l)

\* two successful responses of 1999 and 2001 ms, mean 2000 ms, the boundary
\* of the second and the third band, were scored 80
C31_Witness ==
    /\ verification.pc = "done"
    /\ Len(verification.responses) = 2
    /\ verification.responses[1].latencyMs = 1999
    /\ verification.responses[2].latencyMs = 2001
    /\ \A i \in 1..2 : verification.responses[i].error = ""
    /\ verification.scores.responseTime = 80000

\* the pairs of successful responses the time-variance score of an analysed
\* set is compared with
SpreadProbes ==
    {<<OkResponse(a, <<"32">>), OkResponse(b, <<"32">>)>> :
        a \in SpreadLatencies, b \in SpreadLatencies \ {0}}

\* n * n times the variance of a latency list
SpreadTerm(q) == PairSq(q)

\* C32: with at least two successful responses the time-variance score is a
\* monotonically non-increasing function of the coefficient of variation
\* (stdDev / mean) of their latencies, also across the band boundaries at 0.1,
\* 0.3, 0.5 and 1.0, and is 100 whenever the coefficient is below 0.1.  Two
\* latency lists p and q compare as their coefficients do by
\* SpreadTerm(p) * Sum(q)^2 <= SpreadTerm(q) * Sum(p)^2.
C32_TimeVarianceMonotone ==
    LET lat == LatenciesOf(SelectSeq(verification.responses, NoError))
        S == SumSeq(lat)
        score == verification.scores.timeVariance
    IN (/\ verification.pc = "done"
        /\ Len(lat) >= 2
        /\ S > 0
        /\ \A i \in DOMAIN lat : lat[i] \in SpreadLatencies) =>
          /\ score \in 0..100000
          /\ 100 * SpreadTerm(lat) < S * S => score = 100000
          /\ \A probe \in SpreadProbes :
                LET pl == LatenciesOf(probe)
                    P == SumSeq(pl)
                IN /\ SpreadTerm(lat) * P * P <= SpreadTerm(pl) * S * S
                        => score >= scoreTimeVariance(probe)
                   /\ SpreadTerm(lat) * P * P >= SpreadTerm(pl) * S * S
                        => score <= scoreTimeVariance(probe)

\* three successful responses of 0, 0 and 13 ms, whose coefficient of
\* variation is above 1.0, were scored below 30
C32_Witness ==
    /\ verification.pc = "done"
    /\ Len(verification.responses) = 3
    /\ \A i \in 1..3 : verification.responses[i].error = ""
    /\ verification.responses[1].latencyMs = 0
    /\ verification.responses[2].latencyMs = 0
    /\ verification.responses[3].latencyMs = 13
    /\ verification.scores.timeVariance > 0
    /\ verification.scores.timeVariance < 30000

\* the response set rs with the self-reported duration of response i
\* replaced by ms
WithSelfReport(rs, i, ms) == [rs EXCEPT ![i].selfReportedMs = ms]

\* C33: the duration an agent reports itself never influences the scoring:
\* a scored response set and every response set that differs from it only
\* in one self-reported duration have the same four sub-scores, the same
\* overall score and the same verdict.
C33_SelfReportIgnored ==
    verification.pc = "done" =>
        \A i \in DOMAIN verification.responses : \A ms \in SelfReports :
            LET other == analyzeSwarm(verification.agents,
                             WithSelfReport(verification.responses, i, ms))
            IN /\ other.scores = verification.scores
               /\ other.overallScore = verification.overallScore
               /\ other.verdict = verification.verdict

\* C33 witness: a scored set of two successes measured at 300 ms, one of
\* which reported 9000 ms itself and the other nothing, scored 100 for
\* response time
C33_Witness ==
    /\ verification.pc = "done"
    /\ Len(verification.responses) = 2
    /\ \A i \in 1..2 : /\ verification.responses[i].error = ""
                       /\ verification.responses[i].latencyMs = 300
    /\ verification.responses[1].selfReportedMs = 9000
    /\ verification.responses[2].selfReportedMs = 0
    /\ verification.scores.responseTime = 100000

(***************************************************************************)
(* Dispatcher: dispatchChallenge / challengeAgent                          *)
(* (specification SpecDispatch)                                            *)
(*                                                                         *)
(* One task per agent runs challengeAgent; a task is at "fetch" while the  *)
(* fetch of its current endpoint variant is in flight, at "json" while it  *)
(* reads the body of an HTTP-success response, and at "done" once its      *)
(* promise is resolved.  Time is Date.now() in ticks.                      *)
(***************************************************************************)
MaxAgents == 2      \* longest agent list dispatched to

\* the timeoutMs argument; the clock counts in units of it
TimeoutMs == 1

\* getEndpointVariants returns five endpoints
NumVariants == 5

\* the clock stops once every variant of every agent can have timed out
MaxTime == NumVariants * TimeoutMs + 1

\* agent.id: the ids of a list are distinct and differ from the positions
AgentIds(n) == {[i \in 1..n |-> n + 1 - i]}

\* agent.endpoint: missing, or a base URL
Endpoints == {"", "http://agent"}

\* response texts an agent's body yields
DispatchTexts == {<<"32">>, <<"Blue", "sky">>}

AgentLists ==
    UNION {{[i \in 1..n |-> [id |-> ids[i], endpoint |-> eps[i]]] :
                ids \in AgentIds(n), eps \in [1..n -> Endpoints]} :
           n \in 0..MaxAgents}

\* baseEndpoint.replace(/\/$/, '')
StripSlash(baseEndpoint) ==
    IF baseEndpoint = "http://agent/" THEN "http://agent" ELSE baseEndpoint

getEndpointVariants(baseEndpoint) ==
    LET base == StripSlash(baseEndpoint)
    IN <<base \o "/.well-known/svp-challenge",
         base \o "/api/challenge",
         base \o "/challenge",
         base \o "/verify",
         base>>

NoRecord == [agentId |-> 0, error |-> "", response |-> <<>>, latencyMs |-> 0,
             receivedAt |-> 0]

IdleTask == [pc |-> "idle", variant |-> 0, url |-> "", startTime |-> 0,
             armedAt |-> 0, receivedAt |-> 0, rec |-> NoRecord]

InitDispatch ==
    /\ agents \in AgentLists
    /\ task = [i \in DOMAIN agents |-> IdleTask]
    /\ dispatch = [pc |-> "idle"]
    /\ now = 0

\* challengeAgent up to its first await: the record for an agent without an
\* endpoint, or the fetch of the first variant with its abort timer armed
StartTask(agent) ==
    IF agent.endpoint = ""
    THEN [pc |-> "done", variant |-> 0, url |-> "", startTime |-> 0,
          armedAt |-> 0, receivedAt |-> 0,
          rec |-> [agentId |-> agent.id, error |-> "No endpoint configured",
                   response |-> <<>>, latencyMs |-> 0, receivedAt |-> now]]
    ELSE [pc |-> "fetch", variant |-> 1,
          url |-> getEndpointVariants(agent.endpoint)[1],
          startTime |-> now, armedAt |-> now,
          receivedAt |-> 0, rec |-> NoRecord]

\* mutant: a failed attempt is made again on the same endpoint
NextVariant_Retry(i) ==
    IF task[i].variant < NumVariants
    THEN [task[i] EXCEPT !.pc = "fetch", !.armedAt = now]
    ELSE [IdleTask EXCEPT !.pc = "done",
            !.rec = [agentId |-> agents[i].id,
                     error |-> "All endpoint variants failed",
                     response |-> <<>>,
                     latencyMs |-> now - task[i].startTime,
                     receivedAt |-> now]]

\* the loop moves on after a failed attempt: the next variant's fetch with a
\* new timer, or the failure record once the variants are used up
NextVariant(i) ==
    IF task[i].variant < NumVariants
    THEN [task[i] EXCEPT !.pc = "fetch", !.variant = @ + 1,
            !.url = getEndpointVariants(agents[i].endpoint)[task[i].variant + 1],
            !.armedAt = now]
    ELSE [IdleTask EXCEPT !.pc = "done",
            !.rec = [agentId |-> agents[i].id,
                     error |-> "All endpoint variants failed",
                     response |-> <<>>,
                     latencyMs |-> now - task[i].startTime,
                     receivedAt |-> now]]

\* dispatchChallenge is called: agents.map(challengeAgent) starts every task
DispatchCall ==
    /\ dispatch.pc = "idle"
    /\ dispatch' = [pc |-> "running", startTime |-> now]
    /\ task' = [i \in DOMAIN agents |-> StartTask(agents[i])]
    /\ UNCHANGED <<agents, now, chainVars, scoreVars, serverVars>>

\* fetch resolves with an HTTP-success response: the timer is cleared and
\* the body is read
FetchOk(i) ==
    /\ task[i].pc = "fetch"
    /\ now <= task[i].armedAt + TimeoutMs
    /\ task' = [task EXCEPT ![i].pc = "json", ![i].armedAt = 0,
                             ![i].receivedAt = now]
    /\ UNCHANGED <<agents, dispatch, now, chainVars, scoreVars, serverVars>>

\* fetch resolves with a non-success status: the next variant is tried
FetchNotOk(i) ==
    /\ task[i].pc = "fetch"
    /\ now <= task[i].armedAt + TimeoutMs
    /\ task' = [task EXCEPT ![i] = NextVariant(i)]
    /\ UNCHANGED <<agents, dispatch, now, chainVars, scoreVars, serverVars>>

\* mutant: the network error is not caught and challengeAgent rejects
FetchThrows_Uncaught(i) ==
    /\ task[i].pc = "fetch"
    /\ now <= task[i].armedAt + TimeoutMs
    /\ task' = [task EXCEPT ![i] = [IdleTask EXCEPT !.pc = "rejected"]]
    /\ UNCHANGED <<agents, dispatch, now, chainVars, scoreVars, serverVars>>

\* fetch rejects with a network error: caught, the next variant is tried
FetchThrows(i) ==
    /\ task[i].pc = "fetch"
    /\ now <= task[i].armedAt + TimeoutMs
    /\ task' = [task EXCEPT ![i] = NextVariant(i)]
    /\ UNCHANGED <<agents, dispatch, now, chainVars, scoreVars, serverVars>>

\* mutant: one controller is shared, so a timer aborts every fetch in flight
TimerFires_AbortsAll(i) ==
    /\ task[i].pc = "fetch"
    /\ now >= task[i].armedAt + TimeoutMs
    /\ task' = [j \in DOMAIN task |->
                  IF task[j].pc = "fetch" THEN NextVariant(j) ELSE task[j]]
    /\ UNCHANGED <<agents, dispatch, now, chainVars, scoreVars, serverVars>>

\* the attempt's timer fires: controller.abort() rejects the fetch in flight
TimerFires(i) ==
    /\ task[i].pc = "fetch"
    /\ now >= task[i].armedAt + TimeoutMs
    /\ task' = [task EXCEPT ![i] = NextVariant(i)]
    /\ UNCHANGED <<agents, dispatch, now, chainVars, scoreVars, serverVars>>

\* response.json() resolves: the success record
JsonOk(i, text) ==
    /\ task[i].pc = "json"
    /\ task' = [task EXCEPT ![i] = [IdleTask EXCEPT !.pc = "done",
                  !.rec = [agentId |-> agents[i].id,
                              error |-> "",
                              response |-> text,
                              latencyMs |-> task[i].receivedAt - task[i].startTime,
                              receivedAt |-> task[i].receivedAt]]]
    /\ UNCHANGED <<agents, dispatch, now, chainVars, scoreVars, serverVars>>

\* response.json() rejects (the body is no JSON): caught, the next variant
JsonThrows(i) ==
    /\ task[i].pc = "json"
    /\ task' = [task EXCEPT ![i] = NextVariant(i)]
    /\ UNCHANGED <<agents, dispatch, now, chainVars, scoreVars, serverVars>>

\* mutant: the coefficient of variation is divided out whatever the mean is
calculateTimingStats_Unguarded(latencies) ==
    LET n == Len(latencies)
        S == SumSeq(latencies)
        r == ScaledSqrt(n * SumSq(latencies) - S * S)
        minL == CHOOSE x \in Range(latencies) : \A y \in Range(latencies) : x <= y
        maxL == CHOOSE x \in Range(latencies) : \A y \in Range(latencies) : x >= y
    IN IF n = 0
       THEN [min |-> 0, max |-> 0, mean |-> 0, stdDev |-> 0, cv |-> 0]
       ELSE [min |-> minL, max |-> maxL,
             mean |-> (S * 1000) \div n,
             stdDev |-> (r[1] * 1000) \div (r[2] * n),
             cv |-> CvMilli(latencies, NaN)]

\* calculateTimingStats; mean, stdDev and cv in thousandths
calculateTimingStats(latencies) ==
    LET n == Len(latencies)
        S == SumSeq(latencies)
        r == ScaledSqrt(n * SumSq(latencies) - S * S)
        minL == CHOOSE x \in Range(latencies) : \A y \in Range(latencies) : x <= y
        maxL == CHOOSE x \in Range(latencies) : \A y \in Range(latencies) : x >= y
    IN IF n = 0
       THEN [min |-> 0, max |-> 0, mean |-> 0, stdDev |-> 0, cv |-> 0]
       ELSE [min |-> minL, max |-> maxL,
             mean |-> (S * 1000) \div n,
             stdDev |-> (r[1] * 1000) \div (r[2] * n),
             cv |-> CvMilli(latencies, 0)]

\* mutant: the result holds the successful responses only
Join_OnlySuccessful ==
    /\ dispatch.pc = "running"
    /\ \A i \in DOMAIN task : task[i].pc = "done"
    /\ LET responses == SelectSeq([i \in DOMAIN task |-> task[i].rec], NoError)
           latencies == LatenciesOf(responses)
       IN dispatch' = [pc |-> "done",
                       startTime |-> dispatch.startTime,
                       responses |-> responses,
                       totalAgents |-> Len(agents),
                       respondedCount |-> Len(latencies),
                       avgLatencyMs |-> IF Len(latencies) > 0
                                        THEN (SumSeq(latencies) * 1000)
                                                \div Len(latencies)
                                        ELSE 0,
                       timingStats |-> calculateTimingStats(latencies)]
    /\ UNCHANGED <<agents, task, now, chainVars, scoreVars, serverVars>>

\* Promise.all resolves once every task has: the DispatchResult
Join ==
    /\ dispatch.pc = "running"
    /\ \A i \in DOMAIN task : task[i].pc = "done"
    /\ LET responses == [i \in DOMAIN task |-> task[i].rec]
           latencies == LatenciesOf(SelectSeq(responses, NoError))
       IN dispatch' = [pc |-> "done",
                       startTime |-> dispatch.startTime,
                       responses |-> responses,
                       totalAgents |-> Len(agents),
                       respondedCount |-> Len(latencies),
                       avgLatencyMs |-> IF Len(latencies) > 0
                                        THEN (SumSeq(latencies) * 1000)
                                                \div Len(latencies)
                                        ELSE 0,
                       timingStats |-> calculateTimingStats(latencies)]
    /\ UNCHANGED <<agents, task, now, chainVars, scoreVars, serverVars>>

\* time passes; a timer that is due fires before the clock moves on
Tick ==
    /\ dispatch.pc = "running"
    /\ now < MaxTime
    /\ \A i \in DOMAIN task :
          task[i].pc = "fetch" => now < task[i].armedAt + TimeoutMs
    /\ now' = now + 1
    /\ UNCHANGED <<agents, task, dispatch, chainVars, scoreVars, serverVars>>

NextDispatch ==
    \/ DispatchCall
    \/ \E i \in DOMAIN task : FetchOk(i)
    \/ \E i \in DOMAIN task : FetchNotOk(i)
    \/ \E i \in DOMAIN task : FetchThrows(i)
    \/ \E i \in DOMAIN task : TimerFires(i)
    \/ \E i \in DOMAIN task : \E text \in DispatchTexts : JsonOk(i, text)
    \/ \E i \in DOMAIN task : JsonThrows(i)
    \/ Join
    \/ Tick

InitD == IdleChain /\ InitDispatch /\ IdleScore /\ IdleServer

SpecDispatch == InitD /\ [][NextDispatch]_vars

\* C1: dispatchChallenge returns exactly one response record per requested
\* agent, in the order of the agent list and carrying that agent's id, for
\* every combination of per-agent outcomes, universal failure included.
C1_OneResponsePerAgent ==
    dispatch.pc = "done" =>
        /\ Len(dispatch.responses) = Len(agents)
        /\ dispatch.totalAgents = Len(agents)
        /\ \A i \in DOMAIN agents :
              dispatch.responses[i].agentId = agents[i].id

\* dispatch returned for two agents with different ids that both failed,
\* one without an endpoint and one whose five variants all failed
C1_Witness ==
    /\ dispatch.pc = "done"
    /\ Len(agents) = 2
    /\ agents[1].id # agents[2].id
    /\ \E i, j \in DOMAIN agents :
          /\ dispatch.responses[i].error = "No endpoint configured"
          /\ dispatch.responses[j].error = "All endpoint variants failed"

\* a failure record: empty text and an error string
IsFailure(r) == r.error # "" /\ r.response = <<>>

\* a success record: no error, the text the body held
IsSuccess(r) == r.error = "" /\ r.response \in DispatchTexts

\* C16: no per-agent failure leaves challengeAgent as an exception: every
\* task ends with a record.  An agent without endpoint gets a failure record,
\* a task whose fifth attempt fails (network error, abort by the timer,
\* non-success status, body that does not parse) gets a failure record, a
\* successful agent's record has no error, and the result of
\* dispatchChallenge holds these records.
C16_FailuresBecomeRecords ==
    /\ [](/\ \A i \in DOMAIN task :
               /\ task[i].pc \in {"idle", "fetch", "json", "done"}
               /\ task[i].pc = "done" =>
                     /\ IsFailure(task[i].rec) \/ IsSuccess(task[i].rec)
                     /\ agents[i].endpoint = "" =>
                           /\ IsFailure(task[i].rec)
                           /\ task[i].rec.error = "No endpoint configured"
          /\ dispatch.pc \in {"idle", "running", "done"}
          /\ dispatch.pc = "done" =>
                \A i \in DOMAIN agents : dispatch.responses[i] = task[i].rec)
    /\ [][ \A i \in DOMAIN task :
              /\ (task[i].pc = "fetch" /\ task'[i].pc = "done") =>
                    /\ task[i].variant = NumVariants
                    /\ IsFailure(task'[i].rec)
                    /\ task'[i].rec.error = "All endpoint variants failed"
              /\ (task[i].pc = "json" /\ task'[i].pc = "done") =>
                    \/ IsSuccess(task'[i].rec)
                    \/ /\ task[i].variant = NumVariants
                       /\ IsFailure(task'[i].rec)
                       /\ task'[i].rec.error = "All endpoint variants failed"
         ]_vars

\* dispatch returned with the record of an agent that answered next to the
\* failure record of an agent whose five attempts were all aborted by the
\* timer
C16_Witness ==
    /\ dispatch.pc = "done"
    /\ \E i, j \in DOMAIN agents :
          /\ IsSuccess(dispatch.responses[i])
          /\ IsFailure(dispatch.responses[j])
          /\ dispatch.responses[j].error = "All endpoint variants failed"
          /\ dispatch.responses[j].latencyMs = NumVariants * TimeoutMs

\* the paths the claim lists, in its order
ClaimedPaths ==
    <<"/.well-known/svp-challenge", "/api/challenge", "/challenge", "/verify", "">>

expiresAt == dispatch.startTime + TimeoutMs

\* C18 (as claimed): no attempt of any variant for any agent is in flight
\* after the challenge has expired.
C18_NoAttemptAfterExpiry ==
    dispatch.pc = "running" =>
       \A i \in DOMAIN task :
          task[i].pc \in {"fetch", "json"} => now <= expiresAt

\* the dispatcher with what the claim assumes: its timers fire, time passes,
\* and its own steps are taken; the agents answer or not as they please.
\* A fetch armed when the modelled clock has stopped ends as well.
SpecDispatchFair ==
    /\ InitD
    /\ [][NextDispatch]_vars
    /\ WF_vars(DispatchCall)
    /\ WF_vars(Tick)
    /\ WF_vars(\E i \in DOMAIN task : TimerFires(i))
    /\ WF_vars(\E i \in DOMAIN task : now >= MaxTime /\ FetchThrows(i))
    /\ WF_vars(Join)

\* C19 (as claimed): once called, dispatchChallenge eventually returns,
\* whatever the agents do.
C19_DispatchTerminates ==
    (dispatch.pc = "running") ~> (dispatch.pc = "done")

\* the records a task can move to, from its own state, its own agent and
\* the clock alone
OwnSteps(i) ==
    CASE task[i].pc = "fetch" ->
           {[task[i] EXCEPT !.pc = "json", !.armedAt = 0, !.receivedAt = now],
            NextVariant(i)}
      [] task[i].pc = "json" ->
           {NextVariant(i)} \cup
           {[IdleTask EXCEPT !.pc = "done",
               !.rec = [agentId |-> agents[i].id, error |-> "",
                        response |-> text,
                        latencyMs |-> task[i].receivedAt - task[i].startTime,
                        receivedAt |-> task[i].receivedAt]] :
                 text \in DispatchTexts}
      [] OTHER -> {}

\* C20: while dispatch runs every step moves at most one task, to a state
\* given by that task's own state and the clock; no task's timer, record or
\* position changes in the step of another, and each fetch in flight is
\* aborted when its own timeout is over, wherever the other tasks are.
C20_TasksAreIndependent ==
    /\ [](\A i \in DOMAIN task :
             task[i].pc = "fetch" => now <= task[i].armedAt + TimeoutMs)
    /\ [][ dispatch.pc = "running" =>
              \A i \in DOMAIN task :
                 task'[i] # task[i] =>
                    /\ task'[i] \in OwnSteps(i)
                    /\ \A j \in DOMAIN task : j # i => task'[j] = task[j]
                    /\ now' = now
         ]_vars

\* an agent has its success record from the first instant while the other
\* agent, hung on every variant, is on its last attempt
C20_Witness ==
    \E i, j \in DOMAIN task :
       /\ task[i].pc = "done"
       /\ IsSuccess(task[i].rec)
       /\ task[i].rec.latencyMs = 0
       /\ task[j].pc = "fetch"
       /\ task[j].variant = NumVariants
       /\ now = NumVariants * TimeoutMs

\* C21: the timing statistics of a dispatch result (min, max, mean, stdDev,
\* cv) are computed from the latencies of the responses without an error
\* only; all five are 0 when no agent succeeded; none of them is ever
\* undefined or NaN, a mean latency of 0 included; and respondedCount is the
\* number of responses without an error.
C21_TimingStatsFromSuccesses ==
    dispatch.pc = "done" =>
        LET ok == {i \in DOMAIN dispatch.responses :
                      dispatch.responses[i].error = ""}
            lat == {dispatch.responses[i].latencyMs : i \in ok}
            total == SumSeq(LatenciesOf(SelectSeq(dispatch.responses, NoError)))
            st == dispatch.timingStats
        IN /\ dispatch.respondedCount = Cardinality(ok)
           /\ DOMAIN st = {"min", "max", "mean", "stdDev", "cv"}
           /\ \A f \in DOMAIN st : st[f] # NaN /\ st[f] >= 0
           /\ ok = {} => \A f \in DOMAIN st : st[f] = 0
           /\ ok # {} =>
                /\ st.min \in lat /\ \A l \in lat : st.min <= l
                /\ st.max \in lat /\ \A l \in lat : st.max >= l
                /\ st.mean = (total * 1000) \div Cardinality(ok)
                /\ (st.stdDev = 0) <=> (Cardinality(lat) = 1)
                /\ st.mean = 0 => st.cv = 0
                /\ st.mean > 0 =>
                      /\ st.cv * st.mean < (st.stdDev + 1) * 1000
                      /\ (st.cv + 1) * (st.mean + 1) > st.stdDev * 1000

\* dispatch returned for two agents: one failed after some time, the other
\* answered with latency 0, so the mean latency of the successes is 0
C21_Witness ==
    /\ dispatch.pc = "done"
    /\ Len(dispatch.responses) = 2
    /\ \E i, j \in DOMAIN dispatch.responses :
          /\ dispatch.responses[i].error # ""
          /\ dispatch.responses[i].latencyMs > 0
          /\ dispatch.responses[j].error = ""
          /\ dispatch.responses[j].latencyMs = 0
    /\ dispatch.respondedCount = 1
    /\ dispatch.timingStats.mean = 0

(***************************************************************************)
(* API server: the POST /verify handler and the verifications store        *)
(* (specification SpecServer)                                              *)
(*                                                                         *)
(* Requests are handled concurrently; a handler runs from one await to the *)
(* next without interruption.  The challengeAgent call of each agent is a  *)
(* task that settles with one response record (its steps are those of      *)
(* specification SpecDispatch).                                            *)
(***************************************************************************)
\* the POST /verify requests in flight together
RequestIds == {1, 2}

\* the last millisecond of the clock
LastMs == 1

\* Math.random().toString(36).slice(2, 8)
Suffixes == {"a", "b"}

\* a request body: no JSON, no agents field, or an agent list
Malformed == [kind |-> "malformed", agents |-> <<>>]
Missing == [kind |-> "missing", agents |-> <<>>]
Bodies == {Malformed, Missing} \cup
          {[kind |-> "list", agents |-> [i \in 1..n |-> [id |-> i]]] :
              n \in 0..MaxAgents}

\* the response records a challengeAgent call resolves with
Outcomes == {ErrorResponse, OkResponse(300, <<"32">>), OkResponse(7100, <<"64">>)}

Pending == [agentId |-> 0]
NoVerification == [id |-> <<>>]

IdleRequest == [pc |-> "idle", body |-> Missing, challenge |-> FALSE,
                tasks |-> <<>>, verification |-> NoVerification, status |-> 0]

InitServer ==
    /\ requests = [r \in RequestIds |-> IdleRequest]
    /\ verifications = <<>>

\* mutant: only an absent or empty agent list is turned away
TooFewAgents_EmptyOnly(body) ==
    \/ body = Missing
    \/ Len(body.agents) = 0

\* !body.agents || body.agents.length === 0, or body.agents.length < 2
TooFewAgents(body) ==
    \/ body = Missing
    \/ Len(body.agents) = 0
    \/ Len(body.agents) < 2

generateVerificationId(suffix) == <<now, suffix>>

\* verifications.set(id, v)
MapSet(map, id, v) ==
    [k \in DOMAIN map \cup {id} |-> IF k = id THEN v ELSE map[k]]

\* a POST /verify request arrives; the handler awaits req.json()
Arrive(r, body) ==
    /\ requests[r].pc = "idle"
    /\ requests' = [requests EXCEPT ![r].pc = "json", ![r].body = body]
    /\ UNCHANGED <<verifications, chainVars, dispVars, scoreVars>>

\* req.json() settles: a body that is no JSON is answered 500 from the catch,
\* too few agents 400; otherwise the challenge is generated and
\* dispatchChallenge starts one task per agent
Validate(r) ==
    /\ requests[r].pc = "json"
    /\ LET body == requests[r].body
       IN requests' = [requests EXCEPT ![r] =
            IF body = Malformed
            THEN [@ EXCEPT !.pc = "responded", !.status = 500]
            ELSE IF TooFewAgents(body)
            THEN [@ EXCEPT !.pc = "responded", !.status = 400]
            ELSE [@ EXCEPT !.pc = "dispatch", !.challenge = TRUE,
                           !.tasks = [i \in DOMAIN body.agents |-> Pending]]]
    /\ UNCHANGED <<verifications, chainVars, dispVars, scoreVars>>

\* the challengeAgent promise of one agent resolves
Settle(r, i, outcome) ==
    /\ requests[r].pc = "dispatch"
    /\ i \in DOMAIN requests[r].tasks
    /\ requests[r].tasks[i] = Pending
    /\ requests' = [requests EXCEPT ![r].tasks[i] =
                      [agentId |-> requests[r].body.agents[i].id,
                       error |-> outcome.error,
                       latencyMs |-> outcome.latencyMs,
                       response |-> outcome.response]]
    /\ UNCHANGED <<verifications, chainVars, dispVars, scoreVars>>

\* Promise.all(promises) is resolved
AllSettled(r) ==
    \A i \in DOMAIN requests[r].tasks : requests[r].tasks[i] # Pending

\* analyzeSwarm(body.agents, challenge, dispatchResult.responses): the
\* SwarmVerification of request r, with its generated id and creation time
NewVerification(r, suffix) ==
    LET a == analyzeSwarm(requests[r].body.agents, requests[r].tasks)
    IN [id |-> generateVerificationId(suffix),
        agents |-> a.agents,
        responses |-> a.responses,
        scores |-> a.scores,
        overallScore |-> a.overallScore,
        verdict |-> a.verdict,
        createdAt |-> now]

\* mutant: every verification goes on to uploadEvidence, whatever its verdict
Store_UploadsAny(r, suffix) ==
    /\ requests[r].pc = "dispatch"
    /\ AllSettled(r)
    /\ verifications' = MapSet(verifications, generateVerificationId(suffix),
                               NewVerification(r, suffix))
    /\ requests' = [requests EXCEPT ![r] =
                      [@ EXCEPT !.pc = "upload",
                                !.verification = NewVerification(r, suffix)]]
    /\ UNCHANGED <<chainVars, dispVars, scoreVars>>

\* dispatchChallenge returns: the responses are analysed and the verification
\* is stored; a genuine one goes on to uploadEvidence, any other is answered
Store(r, suffix) ==
    /\ requests[r].pc = "dispatch"
    /\ AllSettled(r)
    /\ verifications' = MapSet(verifications, generateVerificationId(suffix),
                               NewVerification(r, suffix))
    /\ requests' = [requests EXCEPT ![r] =
          IF NewVerification(r, suffix).verdict = "genuine"
          THEN [@ EXCEPT !.pc = "upload",
                         !.verification = NewVerification(r, suffix)]
          ELSE [@ EXCEPT !.pc = "responded",
                         !.verification = NewVerification(r, suffix),
                         !.status = 200]]
    /\ UNCHANGED <<chainVars, dispVars, scoreVars>>

\* uploadEvidence resolves with the evidence URI
uploadEvidence(r) ==
    /\ requests[r].pc = "upload"
    /\ requests' = [requests EXCEPT ![r].pc = "attest"]
    /\ UNCHANGED <<verifications, chainVars, dispVars, scoreVars>>

\* attestSwarm resolves and the result is answered
attestSwarm(r) ==
    /\ requests[r].pc = "attest"
    /\ requests' = [requests EXCEPT ![r].pc = "responded", ![r].status = 200]
    /\ UNCHANGED <<verifications, chainVars, dispVars, scoreVars>>

\* a millisecond passes
ClockTick ==
    /\ now < LastMs
    /\ now' = now + 1
    /\ UNCHANGED <<agents, task, dispatch, chainVars, scoreVars, serverVars>>

NextServer ==
    \/ \E r \in RequestIds : \E body \in Bodies : Arrive(r, body)
    \/ \E r \in RequestIds : Validate(r)
    \/ \E r \in RequestIds : \E i \in 1..MaxAgents : \E o \in Outcomes :
          Settle(r, i, o)
    \/ \E r \in RequestIds : \E suffix \in Suffixes : Store(r, suffix)
    \/ \E r \in RequestIds : uploadEvidence(r)
    \/ \E r \in RequestIds : attestSwarm(r)
    \/ ClockTick

InitV == IdleChain /\ IdleDispatch /\ IdleScore /\ InitServer

SpecServer == InitV /\ [][NextServer]_vars

\* a request whose handler has produced its Verification
Scored(r) == requests[r].verification # NoVerification

\* C22 (as claimed): for every accepted verification request, scoring starts
\* only after every agent's task has settled, exactly one Verification record
\* is stored for the request, after scoring, and no later step of that
\* request or of any other request modifies a stored record.
C22_StoredOnceNeverRevised ==
    [][/\ \A r \in RequestIds :
            (~Scored(r) /\ Scored(r)') =>
               /\ requests[r].tasks # <<>>
               /\ \A i \in DOMAIN requests[r].tasks :
                     requests[r].tasks[i] # Pending
               /\ requests'[r].verification.responses = requests[r].tasks
               /\ requests'[r].verification.id \notin DOMAIN verifications
               /\ verifications'[requests'[r].verification.id]
                     = requests'[r].verification
       /\ \A r \in RequestIds :
            Scored(r) =>
               /\ requests'[r].verification = requests[r].verification
               /\ verifications'[requests[r].verification.id]
                     = requests[r].verification
       /\ \A k \in DOMAIN verifications :
            k \in DOMAIN verifications' /\ verifications'[k] = verifications[k]
      ]_vars

\* C23: a verification request with fewer than two agents (agent list
\* missing, empty or of one element) is rejected with a client error before
\* any challenge is generated or dispatched: no agent is contacted, the
\* scoring engine is not run and no Verification is stored, so every stored
\* Verification has at least 2 agents.
C23_TooFewAgentsRejected ==
    /\ \A r \in RequestIds :
          LET q == requests[r]
          IN (/\ q.pc \notin {"idle", "json"}
              /\ q.body.kind # "malformed"
              /\ (q.body.kind = "missing" \/ Len(q.body.agents) < 2)) =>
                /\ q.pc = "responded"
                /\ q.status = 400
                /\ ~q.challenge
                /\ q.tasks = <<>>
                /\ q.verification = NoVerification
    /\ \A k \in DOMAIN verifications :
          /\ Len(verifications[k].agents) >= 2
          /\ \E r \in RequestIds :
                /\ requests[r].verification = verifications[k]
                /\ requests[r].body.kind = "list"
                /\ requests[r].body.agents = verifications[k].agents

\* a request with a single agent and a request without an agent list have
\* been answered 400 and the store is empty
C23_Witness ==
    /\ \E r \in RequestIds :
          /\ requests[r].body.kind = "list"
          /\ Len(requests[r].body.agents) = 1
          /\ requests[r].status = 400
    /\ \E r \in RequestIds :
          /\ requests[r].body.kind = "missing"
          /\ requests[r].status = 400
    /\ verifications = <<>>

SelfAgents == 5

\* Date.now() - startTime around the 200 to 600 ms selfChallenge sleeps
SelfLatencies == {200, 400, 600}

\* the script runs: every selfChallenge call has resolved, all with the
\* answer to the one prompt
InitMain ==
    \E rs \in [1..SelfAgents -> {OkResponse(l, <<"32">>) : l \in SelfLatencies}] :
        verification = [pc |-> "input", agents |-> [i \in 1..SelfAgents |-> i],
                        responses |-> rs]

\* if (verification.verdict !== 'genuine') return; else uploadEvidence is
\* called
mainGate ==
    /\ verification.pc = "done"
    /\ verification' = [verification EXCEPT !.pc =
                           IF verification.verdict = "genuine" THEN "upload"
                           ELSE "exit"]
    /\ UNCHANGED <<chainVars, dispVars, serverVars>>

\* uploadEvidence resolves and attestSwarm is called
mainUpload ==
    /\ verification.pc = "upload"
    /\ verification' = [verification EXCEPT !.pc = "attest"]
    /\ UNCHANGED <<chainVars, dispVars, serverVars>>

\* attestSwarm resolves and main returns
mainAttest ==
    /\ verification.pc = "attest"
    /\ verification' = [verification EXCEPT !.pc = "exit"]
    /\ UNCHANGED <<chainVars, dispVars, serverVars>>

InitA ==
    /\ IdleChain
    /\ IdleDispatch
    /\ \/ IdleScore /\ InitServer
       \/ InitMain /\ IdleServer

NextAttest ==
    \/ \E r \in DOMAIN requests : \E body \in Bodies : Arrive(r, body)
    \/ \E r \in DOMAIN requests : Validate(r)
    \/ \E r \in DOMAIN requests : \E i \in 1..MaxAgents : \E o \in Outcomes :
          Settle(r, i, o)
    \/ \E r \in DOMAIN requests : \E suffix \in Suffixes : Store(r, suffix)
    \/ \E r \in DOMAIN requests : uploadEvidence(r)
    \/ \E r \in DOMAIN requests : attestSwarm(r)
    \/ ClockTick
    \/ Analyze
    \/ mainGate
    \/ mainUpload
    \/ mainAttest

SpecAttest == InitA /\ [][NextAttest]_vars

\* uploadEvidence or attestSwarm is in flight for request r / for the script
Attesting(r) == requests[r].pc \in {"upload", "attest"}
mainAttesting == verification.pc \in {"upload", "attest"}

\* the store holds a record of this verification
Stored(v) ==
    \E k \in DOMAIN verifications :
        /\ verifications[k].agents = v.agents
        /\ verifications[k].responses = v.responses
        /\ verifications[k].scores = v.scores
        /\ verifications[k].verdict = v.verdict

\* in the server, upload and attestation are in flight only for a scored
\* genuine verification; they start in the step that stores it, and a
\* verification with another verdict is answered in that step
ServerAttestsGenuine ==
    /\ [](\A r \in DOMAIN requests :
            Attesting(r) => /\ Scored(r)
                            /\ requests[r].verification.verdict = "genuine"
                            /\ requests[r].verification.id
                                  \in DOMAIN verifications)
    /\ [][\A r \in DOMAIN requests :
            /\ (~Scored(r) /\ Scored(r)') =>
                  /\ verifications'[requests'[r].verification.id]
                        = requests'[r].verification
                  /\ Attesting(r)'
                        <=> requests'[r].verification.verdict = "genuine"
                  /\ ~Attesting(r)' => requests'[r].pc = "responded"
            /\ (~Attesting(r) /\ Attesting(r)') => ~Scored(r)]_vars

\* in the script, upload and attestation are in flight only for a scored
\* genuine verification
MainAttestsGenuine ==
    mainAttesting => /\ "scores" \in DOMAIN verification
                     /\ verification.verdict = "genuine"

\* C40 (as claimed): evidence upload and attestation are attempted only for
\* a verification whose verdict is genuine, and only after that verification
\* has been scored and stored; a suspicious or likely_fake verification
\* never triggers an upload or an attestation.
C40_AttestOnlyStoredGenuine ==
    /\ ServerAttestsGenuine
    /\ [](MainAttestsGenuine /\ (mainAttesting => Stored(verification)))

\* C40 (amended): evidence upload and attestation are attempted only for a
\* verification whose verdict is genuine and only after it has been scored;
\* the POST /verify handler has stored it by then, the attest-test script
\* stores nothing.
C40_AttestOnlyGenuine ==
    /\ ServerAttestsGenuine
    /\ [](MainAttestsGenuine /\ (mainAttesting => verifications = <<>>))

\* C40 witness: the server awaits attestSwarm for a genuine verification
\* that is in the store, and has answered another request, whose
\* verification is not genuine, without uploading
C40_Witness ==
    \E r1, r2 \in DOMAIN requests :
        /\ requests[r1].pc = "attest"
        /\ requests[r1].verification.verdict = "genuine"
        /\ requests[r1].verification.id \in DOMAIN verifications
        /\ requests[r2].pc = "responded"
        /\ Scored(r2)
        /\ requests[r2].verification.verdict # "genuine"

====
